---- MODULE Spec2Model ----
(***************************************************************************)
(* Model of the e-paper (Edition) engine of the Navbharat backend:         *)
(*   - the slug generator (generateSlug / generateUniqueSlug),             *)
(*   - the Epaper document store with its pre-save hook and its unique     *)
(*     indexes,                                                            *)
(*   - the /api/epapers request handlers (upload, upload-page, POST, PUT,  *)
(*     DELETE), one action per stretch of code between two awaits.         *)
(*                                                                         *)
(* Strings are sequences of UTF-16 code units (integers), as JavaScript    *)
(* sees them, so that length tests, the character classes of the regular   *)
(* expressions and charCodeAt are the ones of the code.                    *)
(***************************************************************************)
EXTENDS Integers, Sequences, FiniteSets, TLC

(***************************************************************************)
(* Bounds of the model.                                                    *)
(***************************************************************************)
\* longest text enumerated as input of generateSlug
MaxTextLen == 3
\* number of requests that may be in flight at the same time
NumSlots == 2
\* the clock (Date.now) runs from 1 to MaxClock; e-paper ids are clock values
MaxClock == 2
\* number of requests started in one behaviour of the store
MaxRequests == 2
\* number of PUT requests started in one behaviour of the update handler
MaxUpdates == 3
\* longest chain of taken slugs, short of the safety limit, in the stores
\* generateUniqueSlug is run against
MaxChain == 3
\* largest number of pages of an uploaded PDF
MaxPdfPages == 2
\* number of requests started in one behaviour of the fetch specification
MaxFetches == 3

(***************************************************************************)
(* Characters (UTF-16 code units).                                         *)
(***************************************************************************)
chSpace  == 32
chBang   == 33
chDQuote == 34
chHyphen == 45
chLt     == 60
chGt     == 62
chA      == 97
chB      == 98
chAa     == 2310
chJa     == 2332
chDanda  == 2404
chLa     == 2354
chEMatra == 2375
chKha    == 2326

\* /['"]/ of generateSlug
QuoteChars == {39, chDQuote}
\* /[।.!?,;:()\[\]{}]/ of generateSlug
PunctChars == {chDanda, 46, chBang, 63, 44, 59, 58, 40, 41, 91, 93, 123, 125}
\* /[@#$%^&*+=|\\/<>~`]/ of generateSlug
SymbolChars == {64, 35, 36, 37, 94, 38, 42, 43, 61, 124, 92, 47, chLt, chGt, 126, 96}
\* \s of the regular expressions and of String.prototype.trim
SpaceChars == {32, 9, 10, 11, 12, 13, 160}

\* the characters texts are built from in the enumerated inputs
Alphabet == {chSpace, chBang, chHyphen, chLt, chGt, chA, chAa, chJa}

\* the word "lekh" (article) followed by a hyphen: the fallback prefix
FallbackPrefix == <<chLa, chEMatra, chKha, chHyphen>>

(***************************************************************************)
(* Sequence helpers.                                                       *)
(***************************************************************************)
SetMin(S) == CHOOSE x \in S : \A y \in S : x <= y
SetMax(S) == CHOOSE x \in S : \A y \in S : y <= x

\* s without its longest prefix of characters of set
DropWhileFront(s, set) ==
  LET keep == {i \in 1 .. Len(s) : s[i] \notin set}
  IN  IF keep = {} THEN <<>> ELSE SubSeq(s, SetMin(keep), Len(s))

\* s without its longest suffix of characters of set
DropWhileBack(s, set) ==
  LET keep == {i \in 1 .. Len(s) : s[i] \notin set}
  IN  IF keep = {} THEN <<>> ELSE SubSeq(s, 1, SetMax(keep))

\* String.prototype.trim
Trim(s) == DropWhileBack(DropWhileFront(s, SpaceChars), SpaceChars)

RemoveChars(s, set) == SelectSeq(s, LAMBDA c : c \notin set)

\* index of the first c at or after position i, 0 when there is none
IndexFrom(s, i, c) ==
  LET at == {j \in i .. Len(s) : s[j] = c}
  IN  IF at = {} THEN 0 ELSE SetMin(at)

\* position p of s lies in a match of /<[^>]+>/g: a '<' at or before p whose
\* first following '>' is at least two characters further and not before p
\* (a '<' inside a match has the same closing '>' as the match)
InTag(s, p) ==
  \E i \in 1 .. p :
     /\ s[i] = chLt
     /\ IndexFrom(s, i + 1, chGt) >= i + 2
     /\ p <= IndexFrom(s, i + 1, chGt)

\* s.replace(/<[^>]+>/g, '')
StripTags(s) ==
  LET kept == SelectSeq([i \in 1 .. Len(s) |-> i], LAMBDA i : ~InTag(s, i))
  IN  [j \in 1 .. Len(kept) |-> s[kept[j]]]

\* s.replace(/X+/g, '-') for a character class X: the first character of
\* every run of X becomes a hyphen, the rest of the run goes
CollapseRuns(s, set) ==
  LET kept == SelectSeq([i \in 1 .. Len(s) |-> i],
                        LAMBDA i : s[i] \notin set \/ i = 1 \/ s[i - 1] \notin set)
  IN  [j \in 1 .. Len(kept) |-> IF s[kept[j]] \in set THEN chHyphen ELSE s[kept[j]]]

\* s.replace(/^-+|-+$/g, '')
TrimHyphens(s) == DropWhileBack(DropWhileFront(s, {chHyphen}), {chHyphen})

(***************************************************************************)
(* The fallback hash of generateSlug.                                      *)
(***************************************************************************)
Two27 == 134217728
Two26 == 67108864

\* acc << 5 : the low 32 bits of acc * 32, read as a signed 32-bit integer
Shl5(acc) ==
  LET lo == acc % Two27
  IN  IF lo >= Two26 THEN (lo - Two27) * 32 ELSE lo * 32

\* text.split('').reduce((acc, char) => ((acc << 5) - acc) + char.charCodeAt(0), 0)
RECURSIVE HashFrom(_, _, _)
HashFrom(s, i, acc) ==
  IF i > Len(s) THEN acc
  ELSE HashFrom(s, i + 1, (Shl5(acc) - acc) + s[i])

Hash(s) == HashFrom(s, 1, 0)

Abs(n) == IF n < 0 THEN 0 - n ELSE n

\* one base-36 digit as a character: 0-9 then a-z
Digit36(d) == IF d < 10 THEN 48 + d ELSE 87 + d

\* Number.prototype.toString(36) of a non-negative integer
RECURSIVE ToString36(_)
ToString36(n) ==
  IF n < 36 THEN <<Digit36(n)>>
  ELSE ToString36(n \div 36) \o <<Digit36(n % 36)>>

\* Number.prototype.toString() of a non-negative integer
RECURSIVE ToString10(_)
ToString10(n) ==
  IF n < 10 THEN <<48 + n>>
  ELSE ToString10(n \div 10) \o <<48 + (n % 10)>>

\* String.prototype.substring(0, n)
Substring0(s, n) == IF Len(s) > n THEN SubSeq(s, 1, n) ELSE s

(***************************************************************************)
(* generateSlug                                                            *)
(***************************************************************************)
SlugMaxLen == 100
SlugMinLen == 3
HashDigits == 8

\* the replace chain of generateSlug, before the fallback
CleanSlug(text) ==
  LET s0 == Trim(text)
      s1 == StripTags(s0)
      s2 == RemoveChars(s1, QuoteChars)
      s3 == RemoveChars(s2, PunctChars)
      s4 == RemoveChars(s3, SymbolChars)
      s5 == CollapseRuns(s4, SpaceChars)
      s6 == CollapseRuns(s5, {chHyphen})
  IN  TrimHyphens(s6)

\* a fallback that leaves the prefix out
FallbackSlugBare(text) ==
  Substring0(ToString36(Abs(Hash(text))), HashDigits)

FallbackSlug(text) ==
  FallbackPrefix \o Substring0(ToString36(Abs(Hash(text))), HashDigits)

\* if (!slug || slug.length < 3): the fallback takes the place of the slug
OrFallback(slug, text) ==
  IF slug = <<>> \/ Len(slug) < SlugMinLen THEN FallbackSlug(text) ELSE slug

\* if (slug.length > 100): cut, and the trailing hyphens of the cut removed
LimitLength(slug) ==
  IF Len(slug) > SlugMaxLen
  THEN DropWhileBack(SubSeq(slug, 1, SlugMaxLen), {chHyphen})
  ELSE slug

generateSlug(text) ==
  IF text = <<>> THEN <<>>
  ELSE LimitLength(OrFallback(CleanSlug(text), text))

(***************************************************************************)
(* JavaScript values as they arrive in a JSON body: undefined (absent),    *)
(* a number, or a string.  NaN is the result of a failed parse.            *)
(***************************************************************************)
Undef    == [t |-> "undef", n |-> 0, s |-> <<>>]
NaN      == [t |-> "nan", n |-> 0, s |-> <<>>]
Num(n)   == [t |-> "num", n |-> n, s |-> <<>>]
Str(s)   == [t |-> "str", n |-> 0, s |-> s]

DigitChars == 48 .. 57

\* value of the longest prefix of decimal digits of s from position i on
RECURSIVE DigitsValue(_, _, _)
DigitsValue(s, i, acc) ==
  IF i > Len(s) \/ s[i] \notin DigitChars THEN acc
  ELSE DigitsValue(s, i + 1, acc * 10 + (s[i] - 48))

\* parseInt(string): leading white space, an optional sign, decimal digits
\* a string without its sign
Unsigned(b) == IF b # <<>> /\ Head(b) \in {chHyphen, 43} THEN Tail(b) ELSE b

\* the number of the digits d, negated under a minus sign
SignedValue(neg, d) ==
  IF d = <<>> \/ Head(d) \notin DigitChars THEN NaN
  ELSE Num((IF neg THEN 0 - 1 ELSE 1) * DigitsValue(d, 1, 0))

IsNegative(b) == b # <<>> /\ Head(b) = chHyphen

parseIntStr(s) ==
  SignedValue(IsNegative(DropWhileFront(s, SpaceChars)),
              Unsigned(DropWhileFront(s, SpaceChars)))

\* parseInt(v) for any value: the argument is first converted to a string
parseInt(v) ==
  CASE v.t = "num" -> v
    [] v.t = "str" -> parseIntStr(v.s)
    [] OTHER -> NaN

\* parseFloat(v); the strings of the model carry no fraction or exponent,
\* on which parseFloat and parseInt agree
parseFloat(v) == parseInt(v)

\* JavaScript truthiness
Truthy(v) ==
  CASE v.t = "num" -> v.n # 0
    [] v.t = "str" -> v.s # <<>>
    [] OTHER -> FALSE

\* a || b
OrElse(a, b) == IF Truthy(a) THEN a ELSE b

\* Number(v), the conversion of Math.round and of Mongoose's Number cast:
\* the whole trimmed string must be a decimal integer, '' converts to 0
AllDigits(d) == d # <<>> /\ \A i \in 1 .. Len(d) : d[i] \in DigitChars

\* Number(b) of a trimmed string
StringToNumber(b) ==
  IF b = <<>> THEN Num(0)
  ELSE IF AllDigits(Unsigned(b)) THEN parseIntStr(b) ELSE NaN

ToNumber(v) ==
  CASE v.t = "num" -> v
    [] v.t = "str" -> StringToNumber(Trim(v.s))
    [] OTHER -> NaN


\* String(v) of a truthy value
ToStr(v) ==
  CASE v.t = "str" -> v.s
    [] v.t = "num" -> IF v.n < 0 THEN <<chHyphen>> \o ToString10(0 - v.n)
                      ELSE ToString10(v.n)
    [] OTHER -> <<>>

(***************************************************************************)
(* URLs and asset ids.  An asset id (Cloudinary public_id) is the pair of  *)
(* the folder's e-paper id and the page number; a URL is a tagged record.  *)
(***************************************************************************)
NoPid == [ns |-> 0, pg |-> 0]
\* folder `epapers/${epaperId}/pages`, public_id `page-${pageNo}`
PagePid(epaperId, pageNo) == [ns |-> epaperId, pg |-> pageNo]

NoUrl == [k |-> "", ns |-> 0, pg |-> 0, x |-> 0, y |-> 0, w |-> 0, h |-> 0]
\* result.secure_url of an upload
SecureUrl(pid) == [NoUrl EXCEPT !.k = "img", !.ns = pid.ns, !.pg = pid.pg]
\* the 800x1000 'limit' thumbnail URL of uploadEpaperPage
ThumbnailUrl(pid) == [NoUrl EXCEPT !.k = "thumb", !.ns = pid.ns, !.pg = pid.pg]
\* a URL chosen by the client, not produced by this program
ExternalUrl(n) == [NoUrl EXCEPT !.k = "ext", !.ns = n]
\* getOptimizedUrl(publicId, {600, 800, fill, q60, jpg}): the cover preset
getOptimizedUrl(pid) == [NoUrl EXCEPT !.k = "opt", !.ns = pid.ns, !.pg = pid.pg]
\* getCroppedUrl(publicId, x, y, width, height) with Math.round on each
\* coordinate; a coordinate that is not a number gives the "cropNaN" URL
CropUrl(pid, nx, ny, nw, nh) ==
  IF {nx.t, ny.t, nw.t, nh.t} = {"num"}
  THEN [k |-> "crop", ns |-> pid.ns, pg |-> pid.pg,
        x |-> nx.n, y |-> ny.n, w |-> nw.n, h |-> nh.n]
  ELSE [NoUrl EXCEPT !.k = "cropNaN", !.ns = pid.ns, !.pg = pid.pg]

getCroppedUrl(pid, x, y, w, h) ==
  CropUrl(pid, ToNumber(x), ToNumber(y), ToNumber(w), ToNumber(h))

(***************************************************************************)
(* Page and section payloads, and what is stored of them.                  *)
(***************************************************************************)
Untitled == <<85, 110, 116, 105, 116, 108, 101, 100>>

\* articleId of a payload: none, a valid ObjectId, or another string
NoArticle  == 0
ArticleOk  == 1
ArticleBad == 2

\* the section the update handler builds from payload item newsItem at
\* index idx (0-based) of page `page`; now is Date.now()
\* typeof v === 'number' ? v : (v ? parseFloat(v) : 0)
FloatOrZero(v) ==
  IF v.t = "num" THEN v ELSE IF Truthy(v) THEN parseFloat(v) ELSE Num(0)

\* typeof v === 'number' ? v : (parseInt(v) || fallback)
IntOr(v, fallback) ==
  IF v.t = "num" THEN v ELSE OrElse(parseInt(v), fallback)

\* a title that is empty or blank becomes 'Untitled'
TitleOrUntitled(t) == IF t = <<>> \/ Trim(t) = <<>> THEN Untitled ELSE t

CleanNews(page, newsItem, idx, now) ==
  [ id     |-> IF newsItem.id.t = "num" THEN newsItem.id
               ELSE IF Truthy(newsItem.id) THEN parseInt(newsItem.id)
               ELSE Num(now + idx),
    x      |-> FloatOrZero(newsItem.x),
    y      |-> FloatOrZero(newsItem.y),
    width  |-> FloatOrZero(newsItem.width),
    height |-> FloatOrZero(newsItem.height),
    title  |-> TitleOrUntitled(IF Truthy(newsItem.title) THEN ToStr(newsItem.title)
                               ELSE Untitled),
    content |-> IF Truthy(newsItem.content) THEN ToStr(newsItem.content) ELSE <<>>,
    articleId |-> newsItem.articleId,
    shareImageUrl |->
      IF newsItem.shareImageUrl # NoUrl THEN newsItem.shareImageUrl
      ELSE IF (page.publicId # NoPid \/ page.imagePublicId # NoPid)
              /\ Truthy(newsItem.width) /\ Truthy(newsItem.height)
           THEN getCroppedUrl(IF page.publicId # NoPid THEN page.publicId
                              ELSE page.imagePublicId,
                              OrElse(newsItem.x, Num(0)), OrElse(newsItem.y, Num(0)),
                              OrElse(newsItem.width, Num(0)), OrElse(newsItem.height, Num(0)))
           ELSE NoUrl,
    slug   |-> <<>> ]

\* the page the update handler builds from payload page `page`
CleanPage(page, now) ==
  [ pageNo    |-> IntOr(page.pageNo, Num(1)),
    image     |-> IF page.image # NoUrl THEN page.image ELSE page.imageUrl,
    thumbnail |-> IF page.thumbnail # NoUrl THEN page.thumbnail ELSE page.thumbnailUrl,
    width     |-> IntOr(page.width, Num(0)),
    height    |-> IntOr(page.height, Num(0)),
    publicId  |-> NoPid,
    sortOrder |-> Undef,
    news      |-> IF page.hasNews
                  THEN [i \in 1 .. Len(page.news) |->
                          CleanNews(page, page.news[i], i - 1, now)]
                  ELSE <<>> ]

\* the validity filter of the update handler
PageIsValid(cp) == ~(cp.image = NoUrl \/ cp.width.n <= 0 \/ cp.height.n <= 0)

\* pages.map(clean).filter(page => page !== null)
CleanPages(pages, now) ==
  SelectSeq([i \in 1 .. Len(pages) |-> CleanPage(pages[i], now)], PageIsValid)

(***************************************************************************)
(* The Epaper schema: casting and validation of pages and sections.        *)
(***************************************************************************)
\* a required Number path accepts a number or a numeric string
NumberOk(v) ==
  \/ v.t = "num"
  \/ v.t = "str" /\ v.s # <<>> /\ ToNumber(v).t = "num"

\* newsItemSchema: id, x, y, width, height required Numbers, articleId
\* validated as null or an ObjectId
NewsOk(n) ==
  /\ NumberOk(n.id) /\ NumberOk(n.x) /\ NumberOk(n.y)
  /\ NumberOk(n.width) /\ NumberOk(n.height)
  /\ n.articleId # ArticleBad

\* pageSchema: pageNo, width, height required Numbers, image a required
\* (non-empty) String
PageOk(p) ==
  /\ NumberOk(p.pageNo) /\ NumberOk(p.width) /\ NumberOk(p.height)
  /\ p.image # NoUrl
  /\ \A i \in 1 .. Len(p.news) : NewsOk(p.news[i])

PagesOk(pages) == \A i \in 1 .. Len(pages) : PageOk(pages[i])

\* the stored form of a section that passed validation
CastNews(n) ==
  [ id |-> ToNumber(n.id).n, x |-> ToNumber(n.x).n, y |-> ToNumber(n.y).n,
    width |-> ToNumber(n.width).n, height |-> ToNumber(n.height).n,
    title |-> n.title, content |-> n.content, articleId |-> n.articleId,
    shareImageUrl |-> n.shareImageUrl, slug |-> n.slug ]

\* the stored form of a page that passed validation
CastPage(p) ==
  [ pageNo |-> ToNumber(p.pageNo).n, image |-> p.image, thumbnail |-> p.thumbnail,
    width |-> ToNumber(p.width).n, height |-> ToNumber(p.height).n,
    publicId |-> p.publicId, sortOrder |-> p.sortOrder,
    news |-> [i \in 1 .. Len(p.news) |-> CastNews(p.news[i])] ]

CastPages(pages) == [i \in 1 .. Len(pages) |-> CastPage(pages[i])]

\* a payload section assigned to the document as it is (POST, and PUT on a
\* missing e-paper): schema paths are cast, other fields are kept
\* (strict: false); title and content default to ''
RawNews(n) ==
  [ id |-> n.id, x |-> n.x, y |-> n.y, width |-> n.width, height |-> n.height,
    title |-> ToStr(n.title), content |-> ToStr(n.content),
    articleId |-> n.articleId, shareImageUrl |-> n.shareImageUrl, slug |-> <<>> ]

\* a payload page assigned to the document as it is
RawPage(p) ==
  [ pageNo |-> p.pageNo, image |-> p.image, thumbnail |-> p.thumbnail,
    width |-> p.width, height |-> p.height,
    publicId |-> p.publicId, sortOrder |-> p.sortOrder,
    news |-> IF p.hasNews THEN [i \in 1 .. Len(p.news) |-> RawNews(p.news[i])]
             ELSE <<>> ]

RawPages(pages) == [i \in 1 .. Len(pages) |-> RawPage(pages[i])]

\* pre('save'): a section without a slug gets generateSlug(title || content)
HookNews(n) ==
  IF n.slug = <<>>
  THEN LET textForSlug == IF n.title # <<>> THEN n.title
                          ELSE Substring0(n.content, 100)
       IN  IF textForSlug # <<>> THEN [n EXCEPT !.slug = generateSlug(textForSlug)]
           ELSE n
  ELSE n

HookPages(pages) ==
  [i \in 1 .. Len(pages) |->
     [pages[i] EXCEPT !.news = [j \in 1 .. Len(pages[i].news) |->
                                  HookNews(pages[i].news[j])]]]

(***************************************************************************)
(* State.                                                                  *)
(***************************************************************************)
VARIABLES
  db,        \* the epapers collection: _id -> stored document
  assets,    \* the asset store: the set of asset ids that hold an image
  temp,      \* the files in the temp directory (multer's destination)
  clock,     \* Date.now()
  nextOid,   \* the next ObjectId handed out by new Epaper(...)
  started,   \* number of requests started so far
  req,       \* per request slot: position in its handler and its locals
  genText,   \* generateSlug exercised alone: its argument
  genOut,    \* ... its result
  genPc,     \* ... "in" before the call, "out" after it
  importable,      \* what import(importPaths[i]) gives in this deployment
  canvasInstalled, \* whether import('canvas') succeeds in this deployment
  pdfjsLib,        \* the loader's module-level cache: 0 (null) or a path index
  createCanvas,    \* the canvas loader's module-level cache, set or not
  conv             \* the running convertPDFToImages call: position and locals

rasterVars == <<importable, canvasInstalled, pdfjsLib, createCanvas, conv>>

vars == <<db, assets, temp, clock, nextOid, started, req, genText, genOut, genPc,
          rasterVars>>

\* the rasterizer before any conversion was asked for
ConvIdle == [pc |-> "idle", pdf |-> "none", i |-> 0, lib |-> 0,
             error |-> <<>>, calls |-> 0]

\* the rasterizer left alone, in a deployment where everything is installed
RasterUnused ==
  /\ importable = <<"ok", "ok", "ok">>
  /\ canvasInstalled = TRUE
  /\ pdfjsLib = 0
  /\ createCanvas = FALSE
  /\ conv = ConvIdle

Slots == 1 .. NumSlots
SafetyLimit == 1000

\* Date.now(): the milliseconds of an epoch far beyond every counter value,
\* plus the clock
Epoch == SafetyLimit * SafetyLimit
DateNow == Epoch + clock
FirstId == Epoch + 1
Statuses == {"draft", "published", "archived"}

\* the in-memory Mongoose document of a request
NoDoc ==
  [ oid |-> 0, isNew |-> FALSE, id |-> 0, title |-> <<>>, slug |-> <<>>,
    date |-> 0, status |-> "", pages |-> <<>>, shareImageUrl |-> NoUrl,
    v |-> 0, valid |-> TRUE, dirty |-> {} ]

NoBody ==
  [ hasTitle |-> FALSE, title |-> <<>>, hasDate |-> FALSE, date |-> 0,
    hasStatus |-> FALSE, status |-> "", hasPages |-> FALSE, pages |-> <<>> ]

IdleSlot ==
  [ pc |-> "idle", op |-> "", id |-> 0, body |-> NoBody, doc |-> NoDoc,
    base |-> <<>>, cand |-> <<>>, counter |-> 0, n |-> 0, k |-> 0,
    pageNo |-> 0, sortOrder |-> Undef, uploaded |-> <<>>, file |-> 0,
    code |-> 0,
    branch |-> "", stale |-> FALSE, relisted |-> FALSE, raced |-> FALSE,
    saved |-> FALSE,
    before |-> <<>>,
    ident |-> <<>>, legacy |-> FALSE, lookups |-> <<>>, sent |-> <<>> ]

\* the slot after its response was sent with status `code`; the locals of
\* the handler are gone, the request and its outcome stay on record
\* (`saved`: save() wrote the document; `before`: the page list the
\* collection held just before an update; of a fetch: `ident` the :id
\* parameter, `lookups` the queries it ran, `sent` the pages of its response)
Done(slot, code) ==
  [IdleSlot EXCEPT !.pc = "done", !.op = slot.op, !.id = slot.id,
                   !.body = slot.body, !.n = slot.n, !.pageNo = slot.pageNo,
                   !.branch = slot.branch, !.stale = slot.stale,
                   !.relisted = slot.relisted,
                   !.before = slot.before,
                   !.file = slot.file, !.saved = slot.saved, !.code = code,
                   !.ident = slot.ident, !.legacy = slot.legacy,
                   !.lookups = slot.lookups, !.sent = slot.sent]

\* the document as the collection holds it (v: the version key __v)
Stored(doc) ==
  [ oid |-> doc.oid, id |-> doc.id, title |-> doc.title, slug |-> doc.slug,
    date |-> doc.date, status |-> doc.status, pages |-> doc.pages,
    shareImageUrl |-> doc.shareImageUrl, v |-> doc.v ]

\* a document read from the collection (findOne)
Loaded(d) ==
  [ oid |-> d.oid, isNew |-> FALSE, id |-> d.id, title |-> d.title,
    slug |-> d.slug, date |-> d.date, status |-> d.status, pages |-> d.pages,
    shareImageUrl |-> d.shareImageUrl, v |-> d.v, valid |-> TRUE, dirty |-> {} ]

\* new Epaper({...}); pages are the loose pages handed to the constructor
\* the new document, given whether its pages are valid (ok) and their cast
NewDoc(oid, id, title, date, status, ok, cast, share) ==
  [ oid |-> oid, isNew |-> TRUE, id |-> id, title |-> title, slug |-> <<>>,
    date |-> date, status |-> status,
    pages |-> IF ok THEN cast ELSE <<>>,
    shareImageUrl |-> share, v |-> 0,
    valid |-> ok,
    dirty |-> {"title", "date", "status", "pages", "shareImageUrl"} ]

NewEpaper(oid, id, title, date, status, pages, share) ==
  NewDoc(oid, id, title, date, status, PagesOk(pages), CastPages(pages), share)

\* the document after the assignment of a page array, given whether the
\* array is valid (ok) and its cast
AssignPages(doc, ok, cast) ==
  IF ok /\ cast = doc.pages THEN doc
  ELSE [doc EXCEPT !.pages = IF ok THEN cast ELSE <<>>,
                   !.valid = doc.valid /\ ok,
                   !.dirty = doc.dirty \cup {"pages"}]

\* an assignment that keeps the pages of the document the payload does not
\* number
SetPagesMerging(doc, pages) ==
  LET new == IF PagesOk(pages) THEN CastPages(pages) ELSE <<>>
      kept == SelectSeq(doc.pages,
                LAMBDA p : \A i \in 1 .. Len(new) : new[i].pageNo # p.pageNo)
  IN  [doc EXCEPT !.pages = new \o kept,
                  !.valid = doc.valid /\ PagesOk(pages),
                  !.dirty = doc.dirty \cup {"pages"}]

\* doc.pages = pages: the array is cast, and the path is marked modified
\* unless the cast value deep-equals the one the document holds
SetPages(doc, pages) == AssignPages(doc, PagesOk(pages), CastPages(pages))

\* doc.title = title, marked modified when the value changes
SetTitle(doc, title) ==
  IF doc.title = title THEN doc
  ELSE [doc EXCEPT !.title = title, !.dirty = doc.dirty \cup {"title"}]

\* doc.date = date
SetDate(doc, date) ==
  IF doc.date = date THEN doc
  ELSE [doc EXCEPT !.date = date, !.dirty = doc.dirty \cup {"date"}]

\* doc.status = status
SetStatus(doc, status) ==
  IF doc.status = status THEN doc
  ELSE [doc EXCEPT !.status = status, !.dirty = doc.dirty \cup {"status"}]

\* Epaper.findOne({ id }): the ids of the documents that match
FindById(id) == {o \in DOMAIN db : db[o].id = id}

\* validateSync / the validation of save(): title and date required, date a
\* valid Date, status in the enum, pages and sections valid
DocValid(doc) ==
  /\ doc.valid
  /\ doc.title # <<>>
  /\ doc.date > 0
  /\ doc.status \in Statuses

\* pages.find(p => p.pageNo === 1) || pages[0], as an index; 0 when no page
FirstPageIndex(pages) ==
  IF \E i \in 1 .. Len(pages) : pages[i].pageNo = 1
  THEN CHOOSE i \in 1 .. Len(pages) :
         pages[i].pageNo = 1 /\ \A j \in 1 .. i - 1 : pages[j].pageNo # 1
  ELSE IF Len(pages) > 0 THEN 1 ELSE 0

\* the shareImageUrl fallback of the update handler
EnsureShareImage(doc) ==
  IF doc.shareImageUrl # NoUrl THEN doc
  ELSE LET i == FirstPageIndex(doc.pages)
       IN  IF i = 0 THEN doc
           ELSE LET fp == doc.pages[i]
                    u  == IF fp.publicId # NoPid THEN getOptimizedUrl(fp.publicId)
                          ELSE IF fp.thumbnail # NoUrl THEN fp.thumbnail
                          ELSE fp.image
                IN  IF u = NoUrl THEN doc
                    ELSE [doc EXCEPT !.shareImageUrl = u,
                                     !.dirty = doc.dirty \cup {"shareImageUrl"}]

(***************************************************************************)
(* document.save(): validation, the pre('save') hook with its slug probes  *)
(* (generateUniqueSlug, one step per findOne), then the write.             *)
(***************************************************************************)
\* the slot after the handler called save() on doc: validation fails with
\* failCode, or the hook runs
\* the document with the pages the hook gave section slugs to
WithHooked(doc, hooked) ==
  [doc EXCEPT !.pages = hooked,
              !.dirty = IF hooked # doc.pages
                        THEN doc.dirty \cup {"pages"} ELSE doc.dirty]

\* generateUniqueSlug starts with the base slug as its candidate
FirstProbe(slot, doc, baseSlug) ==
  [slot EXCEPT !.pc = "save_probe", !.doc = doc,
               !.base = baseSlug, !.cand = baseSlug, !.counter = 1]

\* a hook that also gives a new slug to a document whose title was changed
RunHookRetitled(slot, doc) ==
  IF (doc.slug = <<>> \/ "title" \in doc.dirty) /\ doc.title # <<>>
  THEN FirstProbe(slot, doc, generateSlug(doc.title))
  ELSE [slot EXCEPT !.pc = "save_write", !.doc = doc]

\* the hook gives the document a slug when it has none and has a title
RunHook(slot, doc) ==
  IF doc.slug = <<>> /\ doc.title # <<>>
  THEN FirstProbe(slot, doc, generateSlug(doc.title))
  ELSE [slot EXCEPT !.pc = "save_write", !.doc = doc]

\* a save() without validation
BeginSaveUnchecked(slot, doc, failCode) ==
  RunHook(slot, WithHooked(doc, HookPages(doc.pages)))

BeginSave(slot, doc, failCode) ==
  IF ~DocValid(doc)
  THEN Done(slot, failCode)
  ELSE RunHook(slot, WithHooked(doc, HookPages(doc.pages)))

\* a lookup that also counts the slugs handed to requests still inside save()
SlugTakenOrHanded(slug, excludeId) ==
  \/ \E o \in DOMAIN db : db[o].slug = slug /\ o # excludeId
  \/ \E q \in Slots : /\ req[q].pc = "save_write"
                       /\ req[q].doc.slug = slug
                       /\ req[q].doc.oid # excludeId

\* Model.findOne({ slug, _id: { $ne: excludeId } }) finds a document
SlugTaken(slug, excludeId) ==
  \E o \in DOMAIN db : db[o].slug = slug /\ o # excludeId

\* a loop without the safety limit: it probes until a candidate is free
SaveProbeUnlimited(r) ==
  /\ req[r].pc = "save_probe"
  /\ LET s == req[r]
     IN  IF ~SlugTaken(s.cand, s.doc.oid)
         THEN req' = [req EXCEPT ![r] =
                [s EXCEPT !.pc = "save_write", !.doc.slug = s.cand,
                          !.doc.dirty = s.doc.dirty \cup {"slug"}]]
         ELSE req' = [req EXCEPT ![r] =
                [s EXCEPT !.cand = s.base \o <<chHyphen>> \o ToString10(s.counter),
                          !.counter = s.counter + 1]]
  /\ UNCHANGED <<db, assets, clock, nextOid, started, genText, genOut, genPc, temp, rasterVars>>

\* one turn of the loop of generateUniqueSlug
SaveProbe(r) ==
  /\ req[r].pc = "save_probe"
  /\ LET s == req[r]
     IN  IF ~SlugTaken(s.cand, s.doc.oid)
         THEN req' = [req EXCEPT ![r] =
                [s EXCEPT !.pc = "save_write", !.doc.slug = s.cand,
                          !.doc.dirty = s.doc.dirty \cup {"slug"}]]
         ELSE IF s.counter + 1 > SafetyLimit
              THEN req' = [req EXCEPT ![r] =
                     [s EXCEPT !.pc = "save_write",
                               !.cand = s.base \o <<chHyphen>> \o ToString10(DateNow),
                               !.counter = s.counter + 1,
                               !.doc.slug = s.base \o <<chHyphen>> \o ToString10(DateNow),
                               !.doc.dirty = s.doc.dirty \cup {"slug"}]]
              ELSE req' = [req EXCEPT ![r] =
                     [s EXCEPT !.cand = s.base \o <<chHyphen>> \o ToString10(s.counter),
                               !.counter = s.counter + 1]]
  /\ UNCHANGED <<db, assets, clock, nextOid, started, genText, genOut, genPc, temp, rasterVars>>

\* a collection without unique indexes
DuplicateKeyIgnored(d) == FALSE

\* the unique indexes on id and (sparse) on slug reject the document
DuplicateKey(d) ==
  \E o \in DOMAIN db :
     /\ o # d.oid
     /\ \/ db[o].id = d.id
        \/ d.slug # <<>> /\ db[o].slug = d.slug

\* a save() that never sends the version
Unversioned(doc) == FALSE

\* save() of a loaded document whose pages array was set sends the version
\* it loaded as a condition of the update and increments it
Versioned(doc) == "pages" \in doc.dirty

\* the stored document after an update of the modified paths of doc
Merged(old, doc) ==
  [ oid |-> old.oid, id |-> old.id,
    v |-> IF Versioned(doc) THEN old.v + 1 ELSE old.v,
    title  |-> IF "title" \in doc.dirty THEN doc.title ELSE old.title,
    slug   |-> IF "slug" \in doc.dirty THEN doc.slug ELSE old.slug,
    date   |-> IF "date" \in doc.dirty THEN doc.date ELSE old.date,
    status |-> IF "status" \in doc.dirty THEN doc.status ELSE old.status,
    pages  |-> IF "pages" \in doc.dirty THEN doc.pages ELSE old.pages,
    shareImageUrl |-> IF "shareImageUrl" \in doc.dirty THEN doc.shareImageUrl
                      ELSE old.shareImageUrl ]

\* what generateEpaperMetaHtml(epaper, baseUrl) returns: the HTML text, a
\* string, computed synchronously
generateEpaperMetaHtml == "string"

\* value.then(...) throws a TypeError: value has no then method
ThenThrows(value) == value # "promise"

\* the status code of the response after save(): written tells whether
\* save() resolved.  The upload handler then unlinks its PDF, which throws
\* into the catch block when the file is gone; every handler then calls
\* generateEpaperMetaHtml(...).then(...), and a throw of that call ends in
\* the catch block of the handler as well.
ResponseCode(s, written) ==
  IF ~written THEN 500
  ELSE IF s.op = "upload" /\ s.file \notin temp THEN 500
  ELSE IF ThenThrows(generateEpaperMetaHtml) THEN 500
  ELSE CASE s.op = "put" -> 200
         [] s.op = "post" -> IF s.doc.isNew THEN 201 ELSE 200
         [] s.op = "upload" -> IF s.file \in temp THEN 201 ELSE 500
         [] OTHER -> 201

\* cleanupTemp(): every file of the temp directory is unlinked
cleanupTemp == {}

\* a cleanup scoped to the request: only its own file is unlinked
TempAfterScoped(s) == temp \ {s.file}

\* the temp directory after the handler of s ended, on its success path or in
\* its catch block: upload unlinks its PDF and sweeps the directory,
\* upload-page unlinks its image if it exists
TempAfter(s) ==
  CASE s.op = "upload" -> cleanupTemp
    [] s.op = "uploadPage" -> temp \ {s.file}
    [] OTHER -> temp

\* bookkeeping of a write to the collection by request r, for the requests
\* that are inside save() at that moment: `raced` records that the
\* collection changed after their slug probes began, `stale` that the
\* document oid they loaded has been written since they read it, `relisted`
\* that its page list has been
AfterWrite(r, oid, slots) ==
  [q \in Slots |->
     IF q = r \/ req[q].pc \notin {"save_probe", "save_write"} THEN slots[q]
     ELSE LET same == req[q].doc.oid = oid /\ ~req[q].doc.isNew
          IN  [slots[q] EXCEPT
                 !.raced = TRUE,
                 !.stale = slots[q].stale \/ same,
                 !.relisted = slots[q].relisted
                              \/ (same /\ "pages" \in req[r].doc.dirty)]]

\* the insert or update that ends save(), and the response of the handler.
\* A new document is inserted; of a loaded document the modified paths are
\* written to the stored document of the same _id; the update matches no
\* document (VersionError, DocumentNotFoundError) when the document is gone
\* or, for a versioned update, when its version has changed.
SaveWrite(r) ==
  /\ req[r].pc = "save_write"
  /\ LET s == req[r]
         d == s.doc
         written == IF d.isNew THEN ~DuplicateKey(Stored(d))
                    ELSE /\ d.oid \in DOMAIN db
                         /\ Versioned(d) => db[d.oid].v = d.v
                         /\ ~DuplicateKey(Merged(db[d.oid], d))
     IN  /\ temp' = TempAfter(s)
         /\ IF ~written
            THEN /\ req' = [req EXCEPT ![r] = Done(s, ResponseCode(s, FALSE))]
                 /\ db' = db
            ELSE IF d.isNew
            THEN /\ db' = [o \in DOMAIN db \cup {d.oid} |->
                             IF o = d.oid THEN Stored(d) ELSE db[o]]
                 /\ req' = AfterWrite(r, d.oid,
                              [req EXCEPT ![r] =
                                 Done([s EXCEPT !.saved = TRUE],
                                      ResponseCode(s, TRUE))])
            ELSE /\ db' = [db EXCEPT ![d.oid] = Merged(db[d.oid], d)]
                 /\ req' = AfterWrite(r, d.oid,
                              [req EXCEPT ![r] =
                                 Done([s EXCEPT !.saved = TRUE,
                                                !.before = db[d.oid].pages],
                                      ResponseCode(s, TRUE))])
  /\ UNCHANGED <<assets, clock, nextOid, started, genText, genOut, genPc, rasterVars>>

(***************************************************************************)
(* The request bodies of the model.                                        *)
(***************************************************************************)
TitleAaj == <<chAa, chJa>>
TitleAba == <<chA, chB, chA>>
Titles == {TitleAaj, TitleAba}

\* a section of a payload
PayloadNews(id, x, y, w, h, title) ==
  [ id |-> id, x |-> x, y |-> y, width |-> w, height |-> h, title |-> title,
    content |-> Undef, articleId |-> NoArticle, shareImageUrl |-> NoUrl ]

\* a page of a payload
PayloadPage(pageNo, image, w, h, publicId, news) ==
  [ pageNo |-> pageNo, image |-> image, imageUrl |-> NoUrl,
    thumbnail |-> NoUrl, thumbnailUrl |-> NoUrl, width |-> w, height |-> h,
    publicId |-> publicId, imagePublicId |-> NoPid, sortOrder |-> Undef,
    hasNews |-> TRUE, news |-> news ]

Str800 == <<56, 48, 48>>
Str2 == <<50>>

NewsHeadline == PayloadNews(Num(1), Num(10), Num(20), Num(30), Num(40), Str(TitleAba))
NewsStrings  == PayloadNews(Str(Str2), Str(Str2), Undef, Str(Str800), Str(Str800), Undef)

\* page 1 with two sections
PageFront == PayloadPage(Num(1), ExternalUrl(1), Num(800), Num(600),
                         PagePid(FirstId, 1), <<NewsHeadline, NewsStrings>>)
\* page 1 with the first section only
PageFrontCut == PayloadPage(Num(1), ExternalUrl(1), Num(800), Num(600),
                            PagePid(FirstId, 1), <<NewsHeadline>>)
\* page 2, its numbers sent as strings
PageBack == PayloadPage(Str(Str2), ExternalUrl(2), Str(Str800), Str(Str800),
                        NoPid, <<>>)
\* a page of width 0
PageFlat == PayloadPage(Num(3), ExternalUrl(3), Num(0), Num(600), NoPid, <<>>)
\* a page without an image
PageBlank == PayloadPage(Num(4), NoUrl, Num(800), Num(600), NoPid, <<>>)

\* a section whose id and x are strings that are not numbers
NewsGarbled == PayloadNews(Str(TitleAba), Str(TitleAba), Num(20), Num(30), Num(40),
                           Str(TitleAba))
\* page 1 with that section
PageGarbled == PayloadPage(Num(1), ExternalUrl(1), Num(800), Num(600), NoPid,
                           <<NewsGarbled>>)

PagePayloads ==
  { <<PageFront, PageBack>>, <<PageFrontCut>>, <<PageBack, PageFlat>>,
    <<PageFlat>>, <<PageBlank>>, <<PageGarbled>>, <<>> }

BodyPages(p) == [NoBody EXCEPT !.hasPages = TRUE, !.pages = p]

\* bodies of PUT /api/epapers/:id
PutBodies ==
  { BodyPages(p) : p \in PagePayloads }
  \cup { [NoBody EXCEPT !.hasStatus = TRUE, !.status = "archived"],
         [NoBody EXCEPT !.hasTitle = TRUE, !.title = TitleAba],
         [NoBody EXCEPT !.hasTitle = TRUE, !.title = <<>>],
         [NoBody EXCEPT !.hasDate = TRUE, !.date = 2,
                        !.hasStatus = TRUE, !.status = "bogus"],
         [NoBody EXCEPT !.hasTitle = TRUE, !.title = TitleAaj,
                        !.hasDate = TRUE, !.date = 0 - 1] }

(***************************************************************************)
(* PUT /api/epapers/:id                                                    *)
(***************************************************************************)
\* a request arrives; a slot is free when its previous response was sent
CanStart(r, max) == req[r].pc \in {"idle", "done"} /\ started < max

StartPut(r, ids, bodies, max) ==
  /\ CanStart(r, max)
  /\ \E id \in ids, b \in bodies :
       req' = [req EXCEPT ![r] =
                 [IdleSlot EXCEPT !.pc = "put_find", !.op = "put", !.id = id, !.body = b]]
  /\ started' = started + 1
  /\ UNCHANGED <<db, assets, clock, nextOid, genText, genOut, genPc, temp, rasterVars>>

\* the create-if-missing branch: new Epaper with the payload pages as sent
PutCreate(id, b, oid, now) ==
  NewEpaper(oid, id,
            IF b.hasTitle /\ b.title # <<>> THEN b.title ELSE Untitled,
            IF b.hasDate /\ b.date > 0 THEN b.date ELSE now,
            IF b.hasStatus /\ b.status # "" THEN b.status ELSE "published",
            IF b.hasPages THEN RawPages(b.pages) ELSE <<>>,
            NoUrl)

\* if (title !== undefined) epaper.title = title
PutTitle(doc, b) == IF b.hasTitle THEN SetTitle(doc, b.title) ELSE doc

\* if (date !== undefined), and the date is a valid one: epaper.date = newDate
PutDate(doc, b) == IF b.hasDate /\ b.date > 0 THEN SetDate(doc, b.date) ELSE doc

\* if (pages && Array.isArray(pages)) and if (cleanedPages.length > 0):
\* epaper.pages = cleanedPages
PutPages(doc, b, cleanedPages) ==
  IF b.hasPages /\ Len(cleanedPages) > 0 THEN SetPages(doc, cleanedPages) ELSE doc

\* if (status !== undefined), and the enum includes it: epaper.status = status
PutStatus(doc, b) ==
  IF b.hasStatus /\ b.status \in Statuses THEN SetStatus(doc, b.status) ELSE doc

\* an update that assigns the cleaned pages whatever the body holds
PutUpdateUnguarded(doc, b, now) ==
  PutStatus(SetPages(PutDate(PutTitle(doc, b), b), CleanPages(b.pages, now)), b)

\* the update-existing branch applied to the loaded document
PutUpdate(doc, b, now) ==
  PutStatus(PutPages(PutDate(PutTitle(doc, b), b), b, CleanPages(b.pages, now)), b)

\* a handler that answers 404 when no e-paper has the id
PutFindStrict(r) ==
  /\ req[r].pc = "put_find"
  /\ LET s == req[r]
         found == FindById(s.id)
     IN  /\ req' = [req EXCEPT ![r] =
                      IF found = {} THEN Done(s, 404)
                      ELSE BeginSave([s EXCEPT !.branch = "update"],
                             EnsureShareImage(
                               PutUpdate(Loaded(db[CHOOSE o \in found : TRUE]),
                                         s.body, DateNow)),
                             400)]
         /\ nextOid' = nextOid
  /\ UNCHANGED <<db, assets, clock, started, genText, genOut, genPc, temp, rasterVars>>

\* findOne resolves; the handler runs up to its call of save()
PutFind(r) ==
  /\ req[r].pc = "put_find"
  /\ LET s == req[r]
         found == FindById(s.id)
         doc == IF found = {} THEN PutCreate(s.id, s.body, nextOid, DateNow)
                ELSE PutUpdate(Loaded(db[CHOOSE o \in found : TRUE]), s.body, DateNow)
         s2 == [s EXCEPT !.branch = IF found = {} THEN "create" ELSE "update"]
     IN  /\ req' = [req EXCEPT ![r] = BeginSave(s2, EnsureShareImage(doc), 400)]
         /\ nextOid' = IF found = {} THEN nextOid + 1 ELSE nextOid
  /\ UNCHANGED <<db, assets, clock, started, genText, genOut, genPc, temp, rasterVars>>

(***************************************************************************)
(* POST /api/epapers                                                       *)
(***************************************************************************)
\* id 0 stands for a body without id: the handler takes Date.now()
StartPost(r, ids, bodies, max) ==
  /\ CanStart(r, max)
  /\ \E id \in ids \cup {0}, b \in bodies :
       LET s == [IdleSlot EXCEPT !.op = "post", !.body = b,
                                 !.id = IF id = 0 THEN DateNow ELSE id]
       IN  req' = [req EXCEPT ![r] =
                     IF ~(b.hasTitle /\ b.title # <<>>) \/ ~b.hasDate
                     THEN Done(s, 400)
                     ELSE [s EXCEPT !.pc = "post_find"]]
  /\ started' = started + 1
  /\ UNCHANGED <<db, assets, clock, nextOid, genText, genOut, genPc, temp, rasterVars>>

\* the update-instead-of-create branch
\* existing.pages = pages || existing.pages
PostPages(doc, b) == IF b.hasPages THEN SetPages(doc, RawPages(b.pages)) ELSE doc

\* existing.status = status || existing.status
PostStatus(doc, b) ==
  IF b.hasStatus /\ b.status # "" THEN SetStatus(doc, b.status) ELSE doc

PostUpdate(doc, b) ==
  PostStatus(PostPages(SetDate(SetTitle(doc, b.title), b.date), b), b)

PostCreate(id, b, oid) ==
  NewEpaper(oid, id, b.title, b.date,
            IF b.hasStatus /\ b.status # "" THEN b.status ELSE "published",
            IF b.hasPages THEN RawPages(b.pages) ELSE <<>>,
            NoUrl)

PostFind(r) ==
  /\ req[r].pc = "post_find"
  /\ LET s == req[r]
         found == FindById(s.id)
         doc == IF found = {} THEN PostCreate(s.id, s.body, nextOid)
                ELSE PostUpdate(Loaded(db[CHOOSE o \in found : TRUE]), s.body)
         s2 == [s EXCEPT !.branch = IF found = {} THEN "create" ELSE "update"]
     IN  /\ req' = [req EXCEPT ![r] = BeginSave(s2, doc, 500)]
         /\ nextOid' = IF found = {} THEN nextOid + 1 ELSE nextOid
  /\ UNCHANGED <<db, assets, clock, started, genText, genOut, genPc, temp, rasterVars>>

(***************************************************************************)
(* POST /api/epapers/upload : PDF -> page images -> uploads -> document    *)
(***************************************************************************)
\* pixel sizes of a rasterized page as the asset store reports them
RasterSizes == {[w |-> 2100, h |-> 2970]}

\* a handler that keeps the image of the first page for every page
UploadedPageOfFirst(epaperId, pageNo, size) ==
  [ pageNo |-> Num(pageNo),
    image |-> SecureUrl(PagePid(epaperId, 1)),
    thumbnail |-> ThumbnailUrl(PagePid(epaperId, 1)),
    publicId |-> PagePid(epaperId, pageNo),
    width |-> Num(size.w), height |-> Num(size.h),
    sortOrder |-> Undef, news |-> <<>> ]

\* what the handler keeps of the upload of page pageNo of e-paper epaperId
UploadedPage(epaperId, pageNo, size) ==
  [ pageNo |-> Num(pageNo),
    image |-> SecureUrl(PagePid(epaperId, pageNo)),
    thumbnail |-> ThumbnailUrl(PagePid(epaperId, pageNo)),
    publicId |-> PagePid(epaperId, pageNo),
    width |-> Num(size.w), height |-> Num(size.h),
    sortOrder |-> Undef, news |-> <<>> ]

\* multer stored the PDF in the temp directory; title and date are checked;
\* the conversion starts
StartUpload(r, titles, max) ==
  /\ CanStart(r, max)
  /\ \E t \in titles \cup {<<>>}, n \in 1 .. MaxPdfPages :
       LET b == [NoBody EXCEPT !.hasTitle = t # <<>>, !.title = t,
                               !.hasDate = TRUE, !.date = 1]
           s == [IdleSlot EXCEPT !.op = "upload", !.body = b, !.n = n,
                                 !.file = started + 1]
       IN  req' = [req EXCEPT ![r] =
                     IF t = <<>> THEN Done(s, 400)
                     ELSE [s EXCEPT !.pc = "up_convert"]]
  /\ temp' = temp \cup {started + 1}
  /\ started' = started + 1
  /\ UNCHANGED <<db, assets, clock, nextOid, genText, genOut, genPc, rasterVars>>

\* convertPDFToImages reads the PDF and resolves with its n pages, or rejects
\* (the file is gone, or a page fails to render); on success the handler
\* takes the e-paper id from the clock, on failure its catch block cleans up
UploadConvert(r) ==
  /\ req[r].pc = "up_convert"
  /\ \E ok \in BOOLEAN :
       IF ok /\ req[r].file \in temp
       THEN /\ req' = [req EXCEPT ![r] =
                 [req[r] EXCEPT !.pc = "up_upload", !.id = DateNow, !.k = 0]]
            /\ temp' = temp
       ELSE /\ req' = [req EXCEPT ![r] = Done(req[r], 500)]
            /\ temp' = TempAfter(req[r])
  /\ UNCHANGED <<db, assets, clock, nextOid, started, genText, genOut, genPc, rasterVars>>

\* the cover image of a new e-paper built from uploaded pages
UploadShareImage(pages) ==
  IF pages = <<>> THEN NoUrl
  ELSE IF pages[1].publicId # NoPid THEN getOptimizedUrl(pages[1].publicId)
  ELSE IF pages[1].thumbnail # NoUrl THEN pages[1].thumbnail
  ELSE pages[1].image

\* a catch block that deletes the page images of the aborted e-paper
AssetsRolledBack(s) == {a \in assets : a.ns # s.id}

\* the asset store after the catch block of the upload handler: it unlinks
\* the PDF and sweeps the temp directory, the images already uploaded stay
AssetsAfterAbort(s) == assets

\* a handler that stores the pages uploaded so far when an upload rejects
UploadStepPartial(r) ==
  /\ req[r].pc = "up_upload"
  /\ LET s == req[r]
         pageNo == s.k + 1
     IN  \E ok \in BOOLEAN, size \in RasterSizes :
           IF ~ok
           THEN /\ req' = [req EXCEPT ![r] = Done(s, 500)]
                /\ temp' = TempAfter(s)
                /\ assets' = AssetsAfterAbort(s)
                /\ nextOid' = nextOid + 1
                /\ db' = [o \in DOMAIN db \cup {nextOid} |->
                            IF o = nextOid
                            THEN Stored(NewEpaper(nextOid, s.id, s.body.title,
                                                  s.body.date, "published",
                                                  s.uploaded, NoUrl))
                            ELSE db[o]]
           ELSE LET pages == Append(s.uploaded, UploadedPage(s.id, pageNo, size))
                    Save(saving) ==
                      /\ req' = [req EXCEPT ![r] = saving]
                      /\ nextOid' = nextOid + 1
                      /\ temp' = IF saving.pc = "done" THEN TempAfter(s) ELSE temp
                IN  /\ assets' = assets \cup {PagePid(s.id, pageNo)}
                    /\ db' = db
                    /\ IF pageNo < s.n
                       THEN /\ req' = [req EXCEPT ![r] =
                                 [s EXCEPT !.k = pageNo, !.uploaded = pages]]
                            /\ nextOid' = nextOid
                            /\ temp' = temp
                       ELSE Save(BeginSave([s EXCEPT !.k = pageNo, !.uploaded = pages,
                                                     !.branch = "create"],
                                           NewEpaper(nextOid, s.id, s.body.title,
                                                     s.body.date, "published", pages,
                                                     UploadShareImage(pages)),
                                           500))
  /\ UNCHANGED <<clock, started, genText, genOut, genPc, rasterVars>>

\* uploadEpaperPage of the next page resolves or rejects; after the last
\* page the document is built and saved
UploadStep(r) ==
  /\ req[r].pc = "up_upload"
  /\ LET s == req[r]
         pageNo == s.k + 1
     IN  \E ok \in BOOLEAN, size \in RasterSizes :
           IF ~ok
           THEN /\ req' = [req EXCEPT ![r] = Done(s, 500)]
                /\ temp' = TempAfter(s)
                /\ assets' = AssetsAfterAbort(s)
                /\ nextOid' = nextOid
           ELSE LET pages == Append(s.uploaded, UploadedPage(s.id, pageNo, size))
                    Save(saving) ==
                      /\ req' = [req EXCEPT ![r] = saving]
                      /\ nextOid' = nextOid + 1
                      /\ temp' = IF saving.pc = "done" THEN TempAfter(s) ELSE temp
                IN  /\ assets' = assets \cup {PagePid(s.id, pageNo)}
                    /\ IF pageNo < s.n
                       THEN /\ req' = [req EXCEPT ![r] =
                                 [s EXCEPT !.k = pageNo, !.uploaded = pages]]
                            /\ nextOid' = nextOid
                            /\ temp' = temp
                       ELSE Save(BeginSave([s EXCEPT !.k = pageNo, !.uploaded = pages,
                                                     !.branch = "create"],
                                           NewEpaper(nextOid, s.id, s.body.title,
                                                     s.body.date, "published", pages,
                                                     UploadShareImage(pages)),
                                           500))
  /\ UNCHANGED <<db, clock, started, genText, genOut, genPc, rasterVars>>

(***************************************************************************)
(* POST /api/epapers/upload-page : one page image                          *)
(***************************************************************************)
\* a.sortOrder !== undefined ? a.sortOrder : a.pageNo
PageOrder(p) == IF p.sortOrder.t = "num" THEN p.sortOrder.n ELSE p.pageNo

\* pages.sort((a, b) => orderA - orderB): a stable sort
RECURSIVE InsertPage(_, _)
InsertPage(sorted, p) ==
  IF sorted = <<>> THEN <<p>>
  ELSE IF PageOrder(sorted[Len(sorted)]) <= PageOrder(p) THEN Append(sorted, p)
  ELSE Append(InsertPage(SubSeq(sorted, 1, Len(sorted) - 1), p), sorted[Len(sorted)])

RECURSIVE SortPagesFrom(_, _, _)
SortPagesFrom(pages, i, acc) ==
  IF i > Len(pages) THEN acc
  ELSE SortPagesFrom(pages, i + 1, InsertPage(acc, pages[i]))

SortPages(pages) == SortPagesFrom(pages, 1, <<>>)

\* the file is read and its metadata extracted; the upload starts
StartUploadPage(r, ids, titles, max) ==
  /\ CanStart(r, max)
  /\ \E id \in ids, pageNo \in 1 .. MaxPdfPages, t \in titles \cup {<<>>} :
       req' = [req EXCEPT ![r] =
                 [IdleSlot EXCEPT !.pc = "pg_upload", !.op = "uploadPage", !.id = id,
                                  !.pageNo = pageNo, !.sortOrder = Undef,
                                  !.file = started + 1,
                                  !.body = [NoBody EXCEPT !.hasTitle = t # <<>>,
                                                          !.title = t,
                                                          !.hasDate = TRUE, !.date = 1]]]
  /\ temp' = temp \cup {started + 1}
  /\ started' = started + 1
  /\ UNCHANGED <<db, assets, clock, nextOid, genText, genOut, genPc, rasterVars>>

\* uploadEpaperPage resolves or rejects
PgUpload(r) ==
  /\ req[r].pc = "pg_upload"
  /\ \E ok \in BOOLEAN :
       IF ok
       THEN /\ assets' = assets \cup {PagePid(req[r].id, req[r].pageNo)}
            /\ req' = [req EXCEPT ![r] = [req[r] EXCEPT !.pc = "pg_find"]]
            /\ temp' = temp
       ELSE /\ assets' = assets
            /\ req' = [req EXCEPT ![r] = Done(req[r], 500)]
            /\ temp' = TempAfter(req[r])
  /\ UNCHANGED <<db, clock, nextOid, started, genText, genOut, genPc, rasterVars>>

\* the page list with newPage put in place of the page of the same number,
\* or appended, then sorted
WithPage(pages, newPage) ==
  LET same == {i \in 1 .. Len(pages) : pages[i].pageNo = newPage.pageNo}
  IN  SortPages(IF same = {} THEN Append(pages, newPage)
                ELSE LET pageIndex == CHOOSE i \in same : \A j \in same : i <= j
                     IN  [pages EXCEPT ![pageIndex] = newPage])

\* the cover image set by upload-page when the e-paper has none
PgShareImage(doc, up) ==
  IF doc.shareImageUrl # NoUrl \/ doc.pages = <<>> THEN doc
  ELSE LET fp == doc.pages[FirstPageIndex(doc.pages)]
           u  == IF fp.publicId # NoPid THEN getOptimizedUrl(fp.publicId)
                 ELSE IF up.publicId # NoPid /\ up.pageNo = 1
                      THEN getOptimizedUrl(up.publicId)
                 ELSE IF fp.thumbnail # NoUrl THEN fp.thumbnail
                 ELSE IF fp.image # NoUrl THEN fp.image
                 ELSE IF up.thumbnail # NoUrl THEN up.thumbnail
                 ELSE up.image
       IN  [doc EXCEPT !.shareImageUrl = u, !.dirty = doc.dirty \cup {"shareImageUrl"}]

\* the page built from the upload result, cast as a page of the document
PgPage(s, size) ==
  CastPage([UploadedPage(s.id, s.pageNo, size) EXCEPT
              !.sortOrder = IF Truthy(s.sortOrder) THEN parseInt(s.sortOrder)
                            ELSE Num(s.pageNo)])

\* the document with the page in its list and, if it had none, a cover image
PgPlacePage(doc, up) ==
  PgShareImage([doc EXCEPT !.pages = WithPage(doc.pages, up),
                           !.dirty = doc.dirty \cup {"pages"}], up)

\* findOne resolves; the page is added or replaced and the document saved
PgFind(r) ==
  /\ req[r].pc = "pg_find"
  /\ LET s == req[r]
         found == FindById(s.id)
         s2 == [s EXCEPT !.branch = IF found = {} THEN "create" ELSE "update"]
     IN  IF found = {} /\ ~s.body.hasTitle
         THEN /\ req' = [req EXCEPT ![r] = Done(s2, 400)]
              /\ nextOid' = nextOid
              /\ temp' = temp
         ELSE \E size \in RasterSizes :
           LET Save(saving) ==
                 /\ req' = [req EXCEPT ![r] = saving]
                 /\ nextOid' = IF found = {} THEN nextOid + 1 ELSE nextOid
                 /\ temp' = IF saving.pc = "done" THEN TempAfter(s) ELSE temp
           IN  Save(BeginSave(s2,
                      PgPlacePage(
                        IF found = {}
                        THEN NewEpaper(nextOid, s.id, s.body.title, s.body.date,
                                       "published", <<>>, NoUrl)
                        ELSE Loaded(db[CHOOSE o \in found : TRUE]),
                        PgPage(s, size)),
                      500))
  /\ UNCHANGED <<db, assets, clock, started, genText, genOut, genPc, rasterVars>>

(***************************************************************************)
(* DELETE /api/epapers/:id                                                 *)
(***************************************************************************)
StartDelete(r, ids, max) ==
  /\ CanStart(r, max)
  /\ \E id \in ids :
       req' = [req EXCEPT ![r] =
                 [IdleSlot EXCEPT !.pc = "del_find", !.op = "delete", !.id = id]]
  /\ started' = started + 1
  /\ UNCHANGED <<db, assets, clock, nextOid, genText, genOut, genPc, temp, rasterVars>>

DelFind(r) ==
  /\ req[r].pc = "del_find"
  /\ req' = [req EXCEPT ![r] =
               IF FindById(req[r].id) = {} THEN Done(req[r], 404)
               ELSE [req[r] EXCEPT !.pc = "del_folder"]]
  /\ UNCHANGED <<db, assets, clock, nextOid, started, genText, genOut, genPc, temp, rasterVars>>

\* a handler that answers 500 when deleteFolder rejects
DelFolderStrict(r) ==
  /\ req[r].pc = "del_folder"
  /\ \E ok \in BOOLEAN :
       /\ assets' = IF ok THEN {a \in assets : a.ns # req[r].id} ELSE assets
       /\ req' = [req EXCEPT ![r] =
                    IF ok THEN [req[r] EXCEPT !.pc = "del_doc", !.branch = "cleaned"]
                    ELSE Done([req[r] EXCEPT !.branch = "uncleaned"], 500)]
  /\ UNCHANGED <<db, clock, nextOid, started, genText, genOut, genPc, temp, rasterVars>>

\* deleteFolder(`epapers/${epaperId}/pages`) resolves or rejects; a
\* rejection is logged and the handler goes on
DelFolder(r) ==
  /\ req[r].pc = "del_folder"
  /\ \E ok \in BOOLEAN :
       /\ assets' = IF ok THEN {a \in assets : a.ns # req[r].id} ELSE assets
       /\ req' = [req EXCEPT ![r] =
                    [req[r] EXCEPT !.pc = "del_doc",
                                   !.branch = IF ok THEN "cleaned" ELSE "uncleaned"]]
  /\ UNCHANGED <<db, clock, nextOid, started, genText, genOut, genPc, temp, rasterVars>>

\* Epaper.deleteOne({ id }) and the 204 response
DelDoc(r) ==
  /\ req[r].pc = "del_doc"
  /\ db' = [o \in {o \in DOMAIN db : db[o].id # req[r].id} |-> db[o]]
  /\ req' = AfterWrite(r, 0, [req EXCEPT ![r] = Done(req[r], 204)])
  /\ UNCHANGED <<assets, clock, nextOid, started, genText, genOut, genPc, temp, rasterVars>>

(***************************************************************************)
(* GET /api/epapers/:id                                                    *)
(***************************************************************************)
\* the characters of a hexadecimal string: 0-9, A-F, a-f
HexChars == (48 .. 57) \cup (65 .. 70) \cup (97 .. 102)
\* length of the hexadecimal string of an ObjectId, and of a string an
\* older driver takes as the 12 bytes of one
ObjectIdLen == 24
LegacyIdLen == 12

\* digits d, zero-padded on the left to n characters
PadLeft(d, n) ==
  [i \in 1 .. n |-> IF i <= n - Len(d) THEN 48 ELSE d[i - (n - Len(d))]]

\* the hexadecimal string of the _id oid
OidHex(oid) == PadLeft(ToString10(oid), ObjectIdLen)

\* mongoose.Types.ObjectId.isValid(id) of a string: 24 hexadecimal
\* characters; a driver that still takes 12-byte strings (legacy) accepts
\* every string of 12 characters too
IsObjectIdString(id, legacy) ==
  \/ Len(id) = ObjectIdLen /\ \A i \in 1 .. Len(id) : id[i] \in HexChars
  \/ legacy /\ Len(id) = LegacyIdLen

\* !isNaN(id) of a string: Number(id) is a number
NumericString(id) == Trim(id) = <<>> \/ AllDigits(Unsigned(Trim(id)))

\* the branch of the if / else if / else chain that id takes
IdentClass(id, legacy) ==
  IF IsObjectIdString(id, legacy) THEN "objectId"
  ELSE IF NumericString(id) THEN "number"
  ELSE "slug"

\* a handler that goes through every class the identifier fits
GetLookupsFallingThrough(id, legacy) ==
  (IF IsObjectIdString(id, legacy) THEN <<"objectId">> ELSE <<>>)
    \o (IF NumericString(id) THEN <<"number">> ELSE <<>>)
    \o <<"slug">>

\* the queries the handler runs for id, in order: the one of its branch
GetLookups(id, legacy) == <<IdentClass(id, legacy)>>

\* the documents the query of class c matches: findById(id),
\* findOne({ id: parseInt(id) }) or findOne({ slug: id })
Matches(c, id) ==
  CASE c = "objectId" -> {o \in DOMAIN db : OidHex(o) = id}
    [] c = "number" -> FindById(parseInt(Str(id)).n)
    [] OTHER -> {o \in DOMAIN db : db[o].slug = id}

\* the query of class c throws: parseInt(id) is NaN, which the Number cast
\* of the query rejects
QueryThrows(c, id) == c = "number" /\ parseInt(Str(id)).t # "num"

\* the documents matched by the first of the queries that matches any
FirstMatch(tried, id) ==
  IF \A i \in 1 .. Len(tried) : Matches(tried[i], id) = {} THEN {}
  ELSE Matches(tried[SetMin({i \in 1 .. Len(tried) : Matches(tried[i], id) # {}})], id)

\* the response: 404, or the document with its pages sorted by sortOrder
GetAnswer(s, found) ==
  IF found = {} THEN Done(s, 404)
  ELSE Done([s EXCEPT !.sent = SortPages(db[CHOOSE o \in found : TRUE].pages),
                      !.id = db[CHOOSE o \in found : TRUE].id], 200)

\* the request arrives and takes the branch of its identifier
StartGet(r, idents, max) ==
  /\ CanStart(r, max)
  /\ \E id \in idents, legacy \in BOOLEAN :
       req' = [req EXCEPT ![r] =
                 [IdleSlot EXCEPT !.pc = "get_find", !.op = "get", !.ident = id,
                                  !.legacy = legacy,
                                  !.lookups = GetLookups(id, legacy)]]
  /\ started' = started + 1
  /\ UNCHANGED <<db, assets, clock, nextOid, genText, genOut, genPc, temp, rasterVars>>

\* the query resolves or throws; the handler answers
GetFind(r) ==
  /\ req[r].pc = "get_find"
  /\ req' = [req EXCEPT ![r] =
               IF \E i \in 1 .. Len(req[r].lookups) :
                    QueryThrows(req[r].lookups[i], req[r].ident)
               THEN Done(req[r], 500)
               ELSE GetAnswer(req[r], FirstMatch(req[r].lookups, req[r].ident))]
  /\ UNCHANGED <<db, assets, clock, nextOid, started, genText, genOut, genPc, temp, rasterVars>>

(***************************************************************************)
(* The clock.                                                              *)
(***************************************************************************)
Tick ==
  /\ clock < MaxClock
  /\ clock' = clock + 1
  /\ UNCHANGED <<db, assets, nextOid, started, req, genText, genOut, genPc, temp, rasterVars>>

(***************************************************************************)
(* The e-paper store under all its handlers.                               *)
(***************************************************************************)
\* the bodies the store-wide specification sends
StorePutBodies ==
  { BodyPages(<<PageFrontCut>>), [NoBody EXCEPT !.hasStatus = TRUE, !.status = "archived"] }
StorePostBodies ==
  { [NoBody EXCEPT !.hasTitle = TRUE, !.title = TitleAaj, !.hasDate = TRUE, !.date = 1,
                   !.hasPages = TRUE, !.pages = p] : p \in {<<PageFront>>, <<PageFlat>>} }
StoreTitles == {TitleAaj}
\* the e-paper id the requests of the store-wide specification name; uploads
\* and POST bodies without id take theirs from the clock
StoreIds == {FirstId}

Init ==
  /\ db = <<>>
  /\ assets = {}
  /\ temp = {}
  /\ clock = 1
  /\ nextOid = 1
  /\ started = 0
  /\ req = [r \in Slots |-> IdleSlot]
  /\ genText = <<>>
  /\ genOut = <<>>
  /\ genPc = "out"
  /\ RasterUnused

Next ==
  \/ \E r \in Slots : StartPut(r, StoreIds, StorePutBodies, MaxRequests)
  \/ \E r \in Slots : PutFind(r)
  \/ \E r \in Slots : StartPost(r, StoreIds, StorePostBodies, MaxRequests)
  \/ \E r \in Slots : PostFind(r)
  \/ \E r \in Slots : StartUpload(r, StoreTitles, MaxRequests)
  \/ \E r \in Slots : UploadConvert(r)
  \/ \E r \in Slots : UploadStep(r)
  \/ \E r \in Slots : StartUploadPage(r, StoreIds, StoreTitles, MaxRequests)
  \/ \E r \in Slots : PgUpload(r)
  \/ \E r \in Slots : PgFind(r)
  \/ \E r \in Slots : StartDelete(r, StoreIds, MaxRequests)
  \/ \E r \in Slots : DelFind(r)
  \/ \E r \in Slots : DelFolder(r)
  \/ \E r \in Slots : DelDoc(r)
  \/ \E r \in Slots : SaveProbe(r)
  \/ \E r \in Slots : SaveWrite(r)
  \/ Tick

Spec == Init /\ [][Next]_vars

(***************************************************************************)
(* The update handler alone, with the full range of PUT bodies, on one     *)
(* e-paper id (the first PUT creates the e-paper, the later ones update).  *)
(***************************************************************************)
NextUpdate ==
  \/ \E r \in Slots : StartPut(r, {FirstId}, PutBodies, MaxUpdates)
  \/ \E r \in Slots : PutFind(r)
  \/ \E r \in Slots : SaveProbe(r)
  \/ \E r \in Slots : SaveWrite(r)

SpecUpdate == Init /\ [][NextUpdate]_vars

(***************************************************************************)
(* Fetch, update and delete on one e-paper id: PUT requests that create    *)
(* and update the e-paper with page lists out of order, GET requests with  *)
(* identifiers of every class, DELETE requests.                            *)
(***************************************************************************)
\* a title of twelve letters; its slug is the title itself
TitleTwelve == [i \in 1 .. LegacyIdLen |-> IF i % 2 = 1 THEN chA ELSE chB]

\* the title "123"; its slug is the title itself
TitleDigits == <<49, 50, 51>>

\* page 1 with sortOrder 2 and page 2 with sortOrder 1
PageOneLast  == [PageFrontCut EXCEPT !.sortOrder = Num(2)]
PageTwoFirst == [PageBack EXCEPT !.sortOrder = Num(1)]

\* the section of page 1 moved one pixel to the right, sent with the share
\* image it had at its former place
NewsMoved ==
  [NewsHeadline EXCEPT !.x = Num(11),
                       !.shareImageUrl = getCroppedUrl(PagePid(FirstId, 1), Num(10),
                                                       Num(20), Num(30), Num(40))]
PageMoved == [PageFrontCut EXCEPT !.news = <<NewsMoved>>]

FetchPutBodies ==
  { [NoBody EXCEPT !.hasTitle = TRUE, !.title = TitleAba,
                   !.hasPages = TRUE, !.pages = <<PageOneLast, PageTwoFirst>>],
    [NoBody EXCEPT !.hasTitle = TRUE, !.title = TitleTwelve,
                   !.hasPages = TRUE, !.pages = <<PageBack, PageFrontCut>>],
    [NoBody EXCEPT !.hasTitle = TRUE, !.title = TitleDigits],
    BodyPages(<<PageMoved>>) }

\* the :id parameters of the GET requests: the _id of the first document,
\* the e-paper id, the e-paper id zero-padded to 24 digits, the slugs of the
\* three titles, and a blank
FetchIdents ==
  { OidHex(1), ToString10(FirstId), PadLeft(ToString10(FirstId), ObjectIdLen),
    generateSlug(TitleAba), generateSlug(TitleTwelve), generateSlug(TitleDigits),
    <<chSpace>> }

\* a section of a response as the client reads it from the JSON text:
\* numbers as numbers, title and content as strings
JsonNews(n) ==
  [ id |-> Num(n.id), x |-> Num(n.x), y |-> Num(n.y),
    width |-> Num(n.width), height |-> Num(n.height),
    title |-> Str(n.title), content |-> Str(n.content),
    articleId |-> n.articleId, shareImageUrl |-> n.shareImageUrl,
    slug |-> n.slug ]

\* a page of a response as the client reads it from the JSON text
JsonPage(p) ==
  [ pageNo |-> Num(p.pageNo), image |-> p.image, imageUrl |-> NoUrl,
    thumbnail |-> p.thumbnail, thumbnailUrl |-> NoUrl,
    width |-> Num(p.width), height |-> Num(p.height),
    publicId |-> p.publicId, imagePublicId |-> NoPid, sortOrder |-> p.sortOrder,
    hasNews |-> TRUE, news |-> [i \in 1 .. Len(p.news) |-> JsonNews(p.news[i])] ]

JsonPages(pages) == [i \in 1 .. Len(pages) |-> JsonPage(pages[i])]

\* the client sends the pages of a response it received back as the body of
\* an update of the same e-paper
StartPutBack(r, max) ==
  /\ CanStart(r, max)
  /\ \E q \in Slots :
       /\ req[q].pc = "done" /\ req[q].op = "get" /\ req[q].code = 200
       /\ req[q].sent # <<>>
       /\ req' = [req EXCEPT ![r] =
                   [IdleSlot EXCEPT !.pc = "put_find", !.op = "put",
                                    !.id = req[q].id,
                                    !.body = BodyPages(JsonPages(req[q].sent))]]
  /\ started' = started + 1
  /\ UNCHANGED <<db, assets, clock, nextOid, genText, genOut, genPc, temp, rasterVars>>

NextFetch ==
  \/ \E r \in Slots : StartPut(r, {FirstId}, FetchPutBodies, MaxFetches)
  \/ \E r \in Slots : StartPutBack(r, MaxFetches)
  \/ \E r \in Slots : PutFind(r)
  \/ \E r \in Slots : SaveProbe(r)
  \/ \E r \in Slots : SaveWrite(r)
  \/ \E r \in Slots : StartGet(r, FetchIdents, MaxFetches)
  \/ \E r \in Slots : GetFind(r)
  \/ \E r \in Slots : StartDelete(r, {FirstId}, MaxFetches)
  \/ \E r \in Slots : DelFind(r)
  \/ \E r \in Slots : DelFolder(r)
  \/ \E r \in Slots : DelDoc(r)

SpecFetch == Init /\ [][NextFetch]_vars

(***************************************************************************)
(* generateSlug alone, on every text up to MaxTextLen characters of the    *)
(* alphabet and on a few texts around the length cap.                      *)
(***************************************************************************)
ShortTexts == UNION {[1 .. n -> Alphabet] : n \in 0 .. MaxTextLen}
LongTexts ==
  { [i \in 1 .. SlugMaxLen + 1 |-> chA],
    [i \in 1 .. SlugMaxLen + 2 |-> IF i = SlugMaxLen THEN chSpace ELSE chAa],
    [i \in 1 .. SlugMaxLen |-> chJa] }
GenTexts == ShortTexts \cup LongTexts

InitGen ==
  /\ db = <<>>
  /\ assets = {}
  /\ temp = {}
  /\ clock = 1
  /\ nextOid = 1
  /\ started = 0
  /\ req = [r \in Slots |-> IdleSlot]
  /\ genText \in GenTexts
  /\ genOut = <<>>
  /\ genPc = "in"
  /\ RasterUnused

\* the call of generateSlug(genText)
Generate ==
  /\ genPc = "in"
  /\ genOut' = generateSlug(genText)
  /\ genPc' = "out"
  /\ UNCHANGED <<db, assets, clock, nextOid, started, req, genText, temp, rasterVars>>

NextGen == Generate

SpecGen == InitGen /\ [][NextGen]_vars

(***************************************************************************)
(* generateUniqueSlug alone: one save() of a new e-paper against a         *)
(* collection that already holds the slugs of a chain base, base-1,        *)
(* base-2, ... of its title; no other request writes.                      *)
(***************************************************************************)
\* the k-th slug of the chain: the base slug, then base-1, base-2, ...
ChainSlug(base, k) == IF k = 0 THEN base ELSE base \o <<chHyphen>> \o ToString10(k)

\* a stored e-paper that holds slug, with _id and id derived from n
ChainDoc(n, title, slug) ==
  [ oid |-> SafetyLimit + n, id |-> n, title |-> title, slug |-> slug,
    date |-> 1, status |-> "published", pages |-> <<>>, shareImageUrl |-> NoUrl,
    v |-> 0 ]

\* the collection holding the first m slugs of the chain of title, and, when
\* stamped, also the slug base-<Date.now()> (of an e-paper whose title ends
\* with that number)
ChainStore(title, m, stamped) ==
  [ o \in {SafetyLimit + n : n \in 1 .. m + (IF stamped THEN 1 ELSE 0)} |->
      LET n == o - SafetyLimit
          base == generateSlug(title)
      IN  IF n <= m THEN ChainDoc(n, title, ChainSlug(base, n - 1))
          ELSE ChainDoc(n, title, base \o <<chHyphen>> \o ToString10(Epoch + 1)) ]

\* the chain lengths: short chains, and chains that reach the safety limit
ChainLengths == (0 .. MaxChain) \cup {SafetyLimit - 1, SafetyLimit}

\* the number of the probe the request is at when the run starts: the first
\* one, or, for a chain that reaches the safety limit, one of the last
\* (every candidate probed before it is in the chain)
ProbeStarts(m) ==
  IF m <= MaxChain THEN {1}
  ELSE (SafetyLimit - 2 * MaxChain) .. (SafetyLimit - MaxChain)

\* the request of POST /api/epapers that creates the e-paper
ChainRequest(title) ==
  [IdleSlot EXCEPT !.pc = "post_find", !.op = "post", !.id = FirstId,
                   !.body = [NoBody EXCEPT !.hasTitle = TRUE, !.title = title,
                                           !.hasDate = TRUE, !.date = 1]]

\* the request inside generateUniqueSlug, at probe number c
ChainProbing(title, c) ==
  LET AtProbe(s) == [s EXCEPT !.cand = ChainSlug(s.base, c - 1), !.counter = c]
  IN  AtProbe(BeginSave([ChainRequest(title) EXCEPT !.branch = "create"],
                        PostCreate(FirstId, ChainRequest(title).body, 1), 500))

InitSlug ==
  /\ \E title \in Titles, m \in ChainLengths, stamped \in BOOLEAN :
       /\ db = ChainStore(title, m, stamped)
       /\ \E c \in ProbeStarts(m) :
            /\ req = [r \in Slots |->
                       IF r # 1 THEN IdleSlot
                       ELSE IF c = 1 THEN ChainRequest(title)
                       ELSE ChainProbing(title, c)]
            /\ nextOid = IF c = 1 THEN 1 ELSE 2
  /\ assets = {}
  /\ temp = {}
  /\ clock = 1
  /\ started = 1
  /\ genText = <<>>
  /\ genOut = <<>>
  /\ genPc = "out"
  /\ RasterUnused

NextSlug ==
  \/ PostFind(1)
  \/ SaveProbe(1)
  \/ SaveWrite(1)

SpecSlug == InitSlug /\ [][NextSlug]_vars

(***************************************************************************)
(* The rasterizer: loadCanvas, loadPdfjs and convertPDFToImages.           *)
(***************************************************************************)
\* the backends loadPdfjs tries, in this order
importPaths == <<"pdfjs-dist/build/pdf.mjs", "pdfjs-dist",
                 "pdfjs-dist/legacy/build/pdf.mjs">>

\* what import(path) can give: it throws, it gives a module without a
\* getDocument entry point, or it gives a module that has one
ModuleKinds == {"missing", "noentry", "ok"}

\* the PDFs handed to the converter
PdfKinds == {"good", "corrupt"}

MaxConversions == 3

\* the messages of the errors raised inside convertPDFToImages
CanvasRequired == "Canvas module is required for PDF conversion"
LoadFailed == "Failed to load pdfjs-dist from any known path"
NoGetDocument == "getDocument method not found in pdfjs-dist"
InvalidPdf == "Invalid PDF structure"

\* new Error('Failed to convert PDF: ' + error.message) with the message dropped
WrapErrorBare(message) == <<"Failed to convert PDF: ", "">>

\* new Error('Failed to convert PDF: ' + error.message)
WrapError(message) == <<"Failed to convert PDF: ", message>>

\* hasGetDocument of the module imported from path i
hasGetDocument(i) == importable[i] = "ok"

InitRaster ==
  /\ db = <<>>
  /\ assets = {}
  /\ temp = {}
  /\ clock = 1
  /\ nextOid = 1
  /\ started = 0
  /\ req = [r \in Slots |-> IdleSlot]
  /\ genText = <<>>
  /\ genOut = <<>>
  /\ genPc = "out"
  /\ importable \in [1 .. Len(importPaths) -> ModuleKinds]
  /\ canvasInstalled \in BOOLEAN
  /\ pdfjsLib = 0
  /\ createCanvas = FALSE
  /\ conv = ConvIdle

\* the catch of convertPDFToImages: whatever was thrown is rethrown wrapped
ConvThrows(message) ==
  conv' = [conv EXCEPT !.pc = "thrown", !.error = WrapError(message)]

\* a call of convertPDFToImages(pdfPath)
StartConvert(pdf) ==
  /\ conv.pc \in {"idle", "returned", "thrown"}
  /\ conv.calls < MaxConversions
  /\ conv' = [pc |-> "loadCanvas", pdf |-> pdf, i |-> 0, lib |-> 0,
              error |-> <<>>, calls |-> conv.calls + 1]
  /\ UNCHANGED <<importable, canvasInstalled, pdfjsLib, createCanvas>>

\* await loadCanvas()
LoadCanvas ==
  /\ conv.pc = "loadCanvas"
  /\ IF createCanvas \/ canvasInstalled
     THEN /\ createCanvas' = TRUE
          /\ conv' = [conv EXCEPT !.pc = "loadPdfjs"]
     ELSE /\ ConvThrows(CanvasRequired)
          /\ UNCHANGED createCanvas
  /\ UNCHANGED <<importable, canvasInstalled, pdfjsLib>>

\* await loadPdfjs(), up to its loop: the cached module is returned as it is
LoadPdfjs ==
  /\ conv.pc = "loadPdfjs"
  /\ conv' = IF pdfjsLib # 0
             THEN [conv EXCEPT !.pc = "getDocument", !.lib = pdfjsLib]
             ELSE [conv EXCEPT !.pc = "import", !.i = 1]
  /\ UNCHANGED <<importable, canvasInstalled, pdfjsLib, createCanvas>>

\* one turn of the loop of loadPdfjs: the import, the assignment of the
\* cache, the check, and the throw after the last path
ImportPath ==
  /\ conv.pc = "import"
  /\ pdfjsLib' = IF importable[conv.i] = "missing" THEN pdfjsLib ELSE conv.i
  /\ IF importable[conv.i] # "missing" /\ hasGetDocument(conv.i)
     THEN conv' = [conv EXCEPT !.pc = "getDocument", !.lib = conv.i]
     ELSE IF conv.i < Len(importPaths)
     THEN conv' = [conv EXCEPT !.i = conv.i + 1]
     ELSE ConvThrows(LoadFailed)
  /\ UNCHANGED <<importable, canvasInstalled, createCanvas>>

\* the rest of convertPDFToImages: getDocument is looked up on the module,
\* the document is opened and its pages are rendered
OpenDocument ==
  /\ conv.pc = "getDocument"
  /\ IF ~hasGetDocument(conv.lib) THEN ConvThrows(NoGetDocument)
     ELSE IF conv.pdf = "corrupt" THEN ConvThrows(InvalidPdf)
     ELSE conv' = [conv EXCEPT !.pc = "returned"]
  /\ UNCHANGED <<importable, canvasInstalled, pdfjsLib, createCanvas>>

StoreUnused ==
  UNCHANGED <<db, assets, temp, clock, nextOid, started, req, genText, genOut,
              genPc>>

NextRaster ==
  \/ \E pdf \in PdfKinds : StartConvert(pdf) /\ StoreUnused
  \/ LoadCanvas /\ StoreUnused
  \/ LoadPdfjs /\ StoreUnused
  \/ ImportPath /\ StoreUnused
  \/ OpenDocument /\ StoreUnused

SpecRaster == InitRaster /\ [][NextRaster]_vars

(***************************************************************************)
(* Properties of generateSlug (checked under SpecGen).                     *)
(***************************************************************************)
HasPrefix(s, p) == Len(s) >= Len(p) /\ SubSeq(s, 1, Len(p)) = p

\* the characters generateSlug removes or turns into separators
Punctuation == QuoteChars \cup PunctChars \cup SymbolChars \cup {chHyphen}
PunctuationOnly(text) == \A i \in 1 .. Len(text) : text[i] \in Punctuation

\* the letters of the alphabet outside ASCII
NonAsciiLetters == {c \in Alphabet : c > 127}
LettersOnly(text) ==
  text # <<>> /\ \A i \in 1 .. Len(text) : text[i] \in NonAsciiLetters

C10_LettersPreserved ==
  (genPc = "out" /\ LettersOnly(genText))
    => SelectSeq(genOut, LAMBDA c : c \in NonAsciiLetters) = genText

(***************************************************************************)
(* Properties of generateUniqueSlug.                                       *)
(***************************************************************************)
\* request r is back from generateUniqueSlug with the slug it was handed
HandedSlug(r) == req[r].pc = "save_write" /\ "slug" \in req[r].doc.dirty

\* C5 (checked under SpecSlug, where no other request writes): the slug
\* generateUniqueSlug returns is held by no other document of the collection.
C5_ReturnedSlugIsFree ==
  \A r \in Slots :
     HandedSlug(r) => ~SlugTaken(req[r].doc.slug, req[r].doc.oid)

\* C6 (checked under Spec): generateUniqueSlug is unsafe under concurrent
\* writers: two requests that save new e-papers of the same title, each
\* probing a collection that no write changed meanwhile, are handed the same
\* slug.
C6_ConcurrentSavesSameSlug ==
  \A r1, r2 \in Slots :
     ( /\ r1 # r2
       /\ HandedSlug(r1) /\ HandedSlug(r2)
       /\ ~req[r1].raced /\ ~req[r2].raced
       /\ req[r1].doc.oid # req[r2].doc.oid
       /\ req[r1].doc.title = req[r2].doc.title )
     => req[r1].doc.slug = req[r2].doc.slug

C6_TwoRequestsOneSlug ==
  \E r1, r2 \in Slots :
     /\ r1 # r2
     /\ HandedSlug(r1) /\ HandedSlug(r2)
     /\ ~req[r1].raced /\ ~req[r2].raced
     /\ req[r1].doc.isNew /\ req[r2].doc.isNew
     /\ req[r1].doc.id # req[r2].doc.id
     /\ req[r1].doc.slug = req[r2].doc.slug
     /\ req[r1].doc.slug # <<>>

(***************************************************************************)
(* Properties of the e-paper store (checked under Spec).                   *)
(***************************************************************************)
\* C7: no two stored e-papers share an id, and no two share a slug.
C7_IdAndSlugUnique ==
  \A o1, o2 \in DOMAIN db :
     o1 # o2 =>
       /\ db[o1].id # db[o2].id
       /\ (db[o1].slug # <<>> => db[o1].slug # db[o2].slug)

\* two e-papers of one title are stored, and a third request of that title
\* was refused
C7_SameTitleStoredApart ==
  \E o1, o2 \in DOMAIN db :
     /\ o1 # o2
     /\ db[o1].title = db[o2].title
     /\ db[o1].slug # <<>> /\ db[o2].slug # <<>>
     /\ db[o1].slug # db[o2].slug

\* C8: every page of every stored e-paper has a positive width, a positive
\* height and a non-empty image.
C8_StoredPagesValid ==
  \A o \in DOMAIN db :
     \A i \in 1 .. Len(db[o].pages) :
        /\ db[o].pages[i].width > 0
        /\ db[o].pages[i].height > 0
        /\ db[o].pages[i].image # NoUrl

\* request r's save() of an e-paper built from an uploaded PDF succeeds in
\* this step
UploadSaved(r) ==
  /\ req[r].pc = "save_write" /\ req[r].op = "upload"
  /\ req'[r].pc = "done" /\ req'[r].saved

\* C1: a create-edition request with a PDF of n pages whose save succeeds stores an
\* e-paper of exactly n pages, numbered 1..n in order, each with positive
\* width and height and with the image the upload of that very page returned.
C1_UploadStoresEveryPage ==
  [][ \A r \in Slots :
        UploadSaved(r) =>
          LET d == db'[req[r].doc.oid]
          IN  /\ d.id = req[r].id
              /\ Len(d.pages) = req[r].n
              /\ \A k \in 1 .. Len(d.pages) :
                    /\ d.pages[k].pageNo = k
                    /\ d.pages[k].width > 0
                    /\ d.pages[k].height > 0
                    /\ d.pages[k].image # NoUrl
                    /\ d.pages[k].image = SecureUrl(PagePid(req[r].id, k))
                    /\ PagePid(req[r].id, k) \in assets ]_vars

C1_PdfStored ==
  \E r \in Slots :
     /\ req[r].pc = "done" /\ req[r].op = "upload" /\ req[r].saved
     /\ req[r].n = MaxPdfPages
     /\ \E o \in DOMAIN db :
          /\ db[o].id = req[r].id
          /\ Len(db[o].pages) = MaxPdfPages
          /\ db[o].pages[MaxPdfPages].image = SecureUrl(PagePid(req[r].id, MaxPdfPages))

(***************************************************************************)
(* Properties of PUT /api/epapers/:id on a stored e-paper (checked under   *)
(* SpecUpdate).                                                            *)
(***************************************************************************)
\* the page list a payload is stored as: cleaned by the handler, cast by the
\* schema, section slugs filled in by the pre('save') hook
NormalizedPages(pages) == HookPages(CastPages(CleanPages(pages, DateNow)))

\* the save() of request r, an update of a stored e-paper by PUT, ends in
\* this step
PutSaveEnds(r) ==
  /\ req[r].pc = "save_write" /\ req[r].op = "put" /\ req[r].branch = "update"
  /\ req[r].doc.oid \in DOMAIN db
  /\ req'[r].pc = "done"

\* ... and no request wrote the e-paper since r read it
PutSaveAlone(r) == PutSaveEnds(r) /\ ~req[r].stale /\ req'[r].saved

\* C2 as stated: an update that carries a pages array replaces the stored
\* page list wholesale, whatever the array: afterwards the stored list is the
\* normalized payload.
C2_PagesReplacedWholesale ==
  [][ \A r \in Slots :
        (PutSaveAlone(r) /\ req[r].body.hasPages)
          => db'[req[r].doc.oid].pages = NormalizedPages(req[r].body.pages) ]_vars

\* C2 amended: an update that carries a pages array of which at least one
\* page survives the cleaning replaces the stored page list wholesale by the
\* normalized payload; when no page survives (an empty array, or only pages
\* without image or with a width or height that is not positive) the stored
\* page list is kept as it is.
C2_PagesReplacedUnlessNoneValid ==
  [][ \A r \in Slots :
        (PutSaveAlone(r) /\ req[r].body.hasPages)
          => LET oid == req[r].doc.oid
                 payload == req[r].body.pages
             IN  IF CleanPages(payload, DateNow) # <<>>
                 THEN db'[oid].pages = NormalizedPages(payload)
                 ELSE db'[oid].pages = db[oid].pages ]_vars

\* an update by the front page with one section went through on an e-paper
\* that held two pages, the first with two sections
C2_PageAndSectionDropped ==
  \E r \in Slots :
     /\ req[r].pc = "done" /\ req[r].op = "put" /\ req[r].branch = "update"
     /\ req[r].saved /\ ~req[r].stale
     /\ req[r].body.hasPages /\ req[r].body.pages = <<PageFrontCut>>
     /\ Len(req[r].before) = 2 /\ Len(req[r].before[1].news) = 2
     /\ \E o \in DOMAIN db :
          /\ db[o].id = req[r].id
          /\ db[o].pages = NormalizedPages(<<PageFrontCut>>)
          /\ Len(db[o].pages) = 1 /\ Len(db[o].pages[1].news) = 1

\* C3: an update whose body carries no pages leaves the stored page list
\* exactly as it was: pages, their fields and their sections.
C3_ScalarUpdateKeepsPages ==
  [][ \A r \in Slots :
        (PutSaveEnds(r) /\ ~req[r].body.hasPages)
          => db'[req[r].doc.oid].pages = db[req[r].doc.oid].pages ]_vars

C3_ArchivedWithPages ==
  \E r \in Slots :
     /\ req[r].pc = "done" /\ req[r].op = "put" /\ req[r].branch = "update"
     /\ req[r].saved
     /\ ~req[r].body.hasPages /\ req[r].body.hasStatus
     /\ Len(req[r].before) = 2
     /\ \E o \in DOMAIN db :
          /\ db[o].id = req[r].id
          /\ db[o].status = req[r].body.status
          /\ db[o].pages = req[r].before

\* the page lists PUT stores whole: a payload as the update branch
\* normalizes it, or as the create branch takes it
WholeList(pages) ==
  \E p \in PagePayloads :
     \/ pages = NormalizedPages(p)
     \/ PagesOk(RawPages(p)) /\ pages = HookPages(CastPages(RawPages(p)))

\* C4 as stated: of two concurrent updates that replace the page list, the
\* one that saves last wins: its save leaves its own normalized page list.
C4_LastWriteWins ==
  [][ \A r \in Slots :
        (PutSaveEnds(r) /\ req[r].body.hasPages /\ req[r].relisted)
          => db'[req[r].doc.oid].pages = NormalizedPages(req[r].body.pages) ]_vars

\* C4 amended: two concurrent updates that replace the page list never leave
\* a hybrid, and the one that saves first wins.  When another request has
\* replaced the page list since an update read the e-paper, the save of that
\* update leaves the stored page list untouched, which is the whole list of
\* one request: the save is rejected with an error when the update replaces
\* the list too, and it changes no page when its payload has no valid page.
C4_FirstSaveWins ==
  [][ \A r \in Slots :
        (PutSaveEnds(r) /\ req[r].body.hasPages /\ req[r].relisted)
          => LET oid == req[r].doc.oid
             IN  /\ db'[oid].pages = db[oid].pages
                 /\ WholeList(db'[oid].pages)
                 /\ "pages" \in req[r].doc.dirty
                      => (req'[r].code = 500 /\ ~req'[r].saved /\ db' = db)
                 /\ CleanPages(req[r].body.pages, DateNow) = <<>>
                      => req'[r].saved ]_vars

\* two updates with different page lists raced: the first was stored, the
\* second was rejected
C4_SecondSaveRejected ==
  \E r1, r2 \in Slots :
     /\ r1 # r2
     /\ \A r \in {r1, r2} :
          /\ req[r].pc = "done" /\ req[r].op = "put" /\ req[r].branch = "update"
          /\ req[r].body.hasPages
          /\ CleanPages(req[r].body.pages, DateNow) # <<>>
     /\ req[r1].id = req[r2].id
     /\ NormalizedPages(req[r1].body.pages) # NormalizedPages(req[r2].body.pages)
     /\ req[r1].saved /\ ~req[r1].stale
     /\ req[r2].code = 500 /\ ~req[r2].saved /\ req[r2].relisted
     /\ \E o \in DOMAIN db :
          /\ db[o].id = req[r1].id
          /\ db[o].pages = NormalizedPages(req[r1].body.pages)

(***************************************************************************)
(* Properties of the upload of a PDF (checked under Spec).                 *)
(***************************************************************************)
\* the upload of request r ends in this step before its save() began: the
\* conversion or the upload of a page failed
UploadAborts(r) ==
  /\ req[r].op = "upload"
  /\ req[r].pc \in {"up_convert", "up_upload"}
  /\ req'[r].pc = "done"

\* C11: when the conversion of the PDF or the upload of one of its pages
\* fails, the request is answered with an error (500) and nothing is written
\* to the collection: no e-paper of that request is stored, not even one
\* with the pages uploaded before the failure.
C11_PageFailureAbortsCreate ==
  [][ \A r \in Slots :
        UploadAborts(r)
          => /\ req'[r].code = 500
             /\ ~req'[r].saved
             /\ db' = db ]_vars

\* an upload of a two-page PDF was answered with 500 before save() was
\* called, after page 1 had been uploaded; no e-paper has its id
C11_UploadAborted ==
  \E r \in Slots :
     /\ req[r].pc = "done" /\ req[r].op = "upload"
     /\ req[r].code = 500 /\ req[r].branch = "" /\ ~req[r].saved
     /\ req[r].n = 2
     /\ PagePid(req[r].id, 1) \in assets
     /\ FindById(req[r].id) = {}

\* the upload of request r ends in this step without an e-paper stored: the
\* upload of a page failed, or the document was not saved
UploadFails(r) ==
  /\ req[r].op = "upload"
  /\ req[r].pc \in {"up_upload", "save_write"}
  /\ req'[r].pc = "done"
  /\ ~req'[r].saved

\* C12: when an upload is aborted by the failure of a page upload or of the
\* save, the step that ends it removes nothing from the asset store: the
\* page images uploaded before the failure stay.
C12_AbortKeepsUploadedAssets ==
  [][ \A r \in Slots : UploadFails(r) => assets' = assets ]_vars

\* an upload whose save() failed was answered with 500; the images of all its
\* pages are in the asset store and no stored e-paper refers to one of them
C12_OrphanedAssets ==
  \E r \in Slots :
     /\ req[r].pc = "done" /\ req[r].op = "upload"
     /\ req[r].code = 500 /\ req[r].branch = "create" /\ ~req[r].saved
     /\ \A j \in 1 .. req[r].n : PagePid(req[r].id, j) \in assets
     /\ \A o \in DOMAIN db : \A i \in 1 .. Len(db[o].pages) :
          db[o].pages[i].publicId.ns # req[r].id

(***************************************************************************)
(* Properties of DELETE /api/epapers/:id (checked under Spec).             *)
(***************************************************************************)
\* C13: a delete request that found its e-paper goes on to remove the
\* document whether deleteFolder resolved or rejected, and the step that
\* removes it answers 204 and leaves no e-paper of that id in the
\* collection, also when deleteFolder had rejected.
C13_DeleteDespiteFolderFailure ==
  [][ \A r \in Slots :
        /\ (req[r].pc = "del_folder" /\ req'[r] # req[r])
             => req'[r].pc = "del_doc"
        /\ (req[r].pc = "del_doc" /\ req'[r] # req[r])
             => /\ req'[r].pc = "done"
                /\ req'[r].code = 204
                /\ \A o \in DOMAIN db' : db'[o].id # req[r].id ]_vars

\* a delete was answered with 204 after deleteFolder had rejected: the
\* e-paper is gone, an image of its folder is still in the asset store
C13_DeletedWithAssetsLeft ==
  \E r \in Slots :
     /\ req[r].pc = "done" /\ req[r].op = "delete"
     /\ req[r].branch = "uncleaned" /\ req[r].code = 204
     /\ FindById(req[r].id) = {}
     /\ \E a \in assets : a.ns = req[r].id

(***************************************************************************)
(* Properties of fetch, update and delete (checked under SpecFetch).       *)
(***************************************************************************)
\* the query of the fetch of request r runs and matches no e-paper
GetMisses(r) ==
  /\ req[r].pc = "get_find"
  /\ \A i \in 1 .. Len(req[r].lookups) :
       ~QueryThrows(req[r].lookups[i], req[r].ident)
  /\ FirstMatch(req[r].lookups, req[r].ident) = {}

\* the findOne of the update or delete of request r matches no e-paper
FindMisses(r, pc) == req[r].pc = pc /\ FindById(req[r].id) = {}

\* request r is answered 404 in this step, which writes nothing
NotFoundStep(r) == req'[r].pc = "done" /\ req'[r].code = 404 /\ db' = db

PutAggregate(r) ==
  EnsureShareImage(
    IF FindById(req[r].id) = {}
    THEN PutCreate(req[r].id, req[r].body, nextOid, DateNow)
    ELSE PutUpdate(Loaded(db[CHOOSE o \in FindById(req[r].id) : TRUE]),
                   req[r].body, DateNow))

\* C15: when the document an update built fails the schema checks, the
\* request is answered with the validation error (400) in the step that
\* built it, save() is not called and the collection stays as it was; no
\* update answered 400 has written anything.
C15_InvalidUpdateNotApplied ==
  [][ \A r \in Slots :
        /\ (/\ req[r].pc = "put_find" /\ req'[r] # req[r]
            /\ ~DocValid(PutAggregate(r)))
             => /\ req'[r].pc = "done" /\ req'[r].code = 400
                /\ ~req'[r].saved
                /\ db' = db
        /\ (/\ req[r].op = "put" /\ req[r].pc # "done"
            /\ req'[r].pc = "done" /\ req'[r].code = 400)
             => db' = db ]_vars

\* an update with an empty title of a stored e-paper was answered 400; the
\* e-paper still has its title
C15_UpdateRejected ==
  \E r \in Slots :
     /\ req[r].pc = "done" /\ req[r].op = "put" /\ req[r].branch = "update"
     /\ req[r].code = 400 /\ ~req[r].saved
     /\ req[r].body.hasTitle /\ req[r].body.title = <<>>
     /\ \E o \in DOMAIN db : db[o].id = req[r].id /\ db[o].title # <<>>

(***************************************************************************)
(* Properties of the fetch handler (checked under SpecFetch).              *)
(***************************************************************************)
\* c is the first of the classes objectId, number, slug that id fits
FirstFitting(c, id, legacy) ==
  /\ IsObjectIdString(id, legacy) => c = "objectId"
  /\ (~IsObjectIdString(id, legacy) /\ NumericString(id)) => c = "number"
  /\ (~IsObjectIdString(id, legacy) /\ ~NumericString(id)) => c = "slug"

\* the fetch of request r runs the one query of class c and answers from it
AnswersFrom(r, c) ==
  /\ req[r].lookups = <<c>>
  /\ (~QueryThrows(c, req[r].ident) /\ Matches(c, req[r].ident) = {})
       => req'[r].code = 404
  /\ req'[r].code = 200
       => \E o \in Matches(c, req[r].ident) :
             req'[r].sent = SortPages(db[o].pages)

C17_ScratchFileRemoved ==
  \A r \in Slots :
     (req[r].pc = "done" /\ req[r].op \in {"upload", "uploadPage"})
       => req[r].file \notin temp

\* the upload of request r leaves its handler through the success path or
\* the catch block in this step
UploadEnds(r) ==
  /\ req[r].op = "upload"
  /\ req[r].pc \in {"up_convert", "up_upload", "save_probe", "save_write"}
  /\ req'[r].pc = "done"

\* C18: when an upload ends through its success path or its catch block, no
\* file of any other request is left in the temp directory, the PDF of an
\* upload still waiting for its conversion included; an upload whose PDF is
\* gone when its conversion runs is answered 500.
C18_SweepRemovesOthersFiles ==
  [][ \A r \in Slots :
        /\ UploadEnds(r) => \A q \in Slots \ {r} : req[q].file \notin temp'
        /\ (/\ req[r].pc = "up_convert" /\ req[r].file \notin temp
            /\ req'[r] # req[r])
             => req'[r].pc = "done" /\ req'[r].code = 500 ]_vars

\* an upload has been answered while another is still waiting for its
\* conversion, and the PDF of the waiting one is gone
C18_InputLost ==
  \E r, q \in Slots :
     /\ req[r].pc = "done" /\ req[r].op = "upload" /\ req[r].code # 400
     /\ req[q].pc = "up_convert" /\ req[q].op = "upload"
     /\ req[q].file # req[r].file
     /\ req[q].file \notin temp

(***************************************************************************)
(* Properties of the page order after an update (checked under SpecFetch). *)
(***************************************************************************)
\* the payload pages of body b that carry page number pageNo and a sortOrder
SortOrderGiven(b, pageNo) ==
  {i \in 1 .. Len(b.pages) :
     /\ IntOr(b.pages[i].pageNo, Num(1)).n = pageNo
     /\ b.pages[i].sortOrder.t = "num"}

\* the sort key body b gives the page numbered pageNo: its sortOrder, or
\* the page number when it has none
PayloadKey(b, pageNo) ==
  IF SortOrderGiven(b, pageNo) = {} THEN pageNo
  ELSE b.pages[SetMin(SortOrderGiven(b, pageNo))].sortOrder.n

\* pages is in ascending order of the sort keys of body b
InPayloadOrder(pages, b) ==
  \A i, j \in 1 .. Len(pages) :
     i < j => PayloadKey(b, pages[i].pageNo) <= PayloadKey(b, pages[j].pageNo)

\* the save() of an update with a pages payload writes in this step
PutPagesWritten(r) ==
  /\ req[r].op = "put" /\ req[r].pc = "save_write" /\ req[r].body.hasPages
  /\ req'[r].pc = "done" /\ req'[r].saved

\* C19: when an update with a pages payload has been saved, the pages of
\* the e-paper are in ascending order of the payload's sortOrder (pageNo for
\* a page without one), both as the collection holds them and as the fetch
\* handler would return them.
C19_PagesInPayloadSortOrder ==
  [][ \A r \in Slots :
        PutPagesWritten(r)
          => \A o \in DOMAIN db' :
                db'[o].id = req[r].id
                  => /\ InPayloadOrder(db'[o].pages, req[r].body)
                     /\ InPayloadOrder(SortPages(db'[o].pages), req[r].body) ]_vars

(***************************************************************************)
(* Properties of the cover image (checked under Spec).                     *)
(***************************************************************************)
\* every page of the document is the result of an upload by this program
FromUploads(doc) ==
  /\ doc.pages # <<>>
  /\ \A i \in 1 .. Len(doc.pages) :
        /\ doc.pages[i].publicId # NoPid
        /\ doc.pages[i].image = SecureUrl(doc.pages[i].publicId)

\* C20: a stored e-paper built from uploaded pages that has a page numbered
\* 1 carries as shareImageUrl the cover-preset URL of that page's image,
\* whichever page was uploaded first.
C20_CoverIsFirstPage ==
  \A o \in DOMAIN db :
     FromUploads(db[o])
       => \A i \in 1 .. Len(db[o].pages) :
             db[o].pages[i].pageNo = 1
               => db[o].shareImageUrl = getOptimizedUrl(db[o].pages[i].publicId)

(***************************************************************************)
(* Termination of generateUniqueSlug (checked under SpecSlug).             *)
(***************************************************************************)
\* the slug of the safety-limit branch: `${slug}-${Date.now()}`
StampedSlug(base) == base \o <<chHyphen>> \o ToString10(DateNow)

\* the probe request r issues in this step is one of the first SafetyLimit
\* of the chain base, base-1, base-2, ...
ProbeInChain(r) ==
  /\ req[r].counter \in 1 .. SafetyLimit
  /\ req[r].cand = ChainSlug(req[r].base, req[r].counter - 1)

\* C21: generateUniqueSlug issues at most SafetyLimit probes, the base
\* slug and then base-1, base-2, ... in increasing order; it goes on to the
\* next candidate only after a probe that found a document, and when the
\* last of the SafetyLimit probes finds one it returns the base slug with
\* the timestamp appended, without another probe.
C21_AtMostThousandProbes ==
  [][ \A r \in Slots :
        (req[r].pc = "save_probe" /\ req'[r] # req[r])
          => /\ ProbeInChain(r)
             /\ req'[r].pc \in {"save_probe", "save_write"}
             /\ req'[r].pc = "save_probe"
                  => /\ SlugTaken(req[r].cand, req[r].doc.oid)
                     /\ req'[r].counter = req[r].counter + 1
                     /\ req'[r].cand = ChainSlug(req[r].base, req[r].counter)
             /\ (/\ req[r].counter = SafetyLimit
                 /\ SlugTaken(req[r].cand, req[r].doc.oid))
                  => /\ req'[r].pc = "save_write"
                     /\ req'[r].doc.slug = StampedSlug(req[r].base) ]_vars

\* all SafetyLimit candidates were taken and the request left the loop with
\* the timestamped slug
C21_LimitReached ==
  \E r \in Slots :
     /\ req[r].pc = "save_write"
     /\ req[r].counter = SafetyLimit + 1
     /\ req[r].doc.slug = StampedSlug(req[r].base)
     /\ \A k \in 0 .. SafetyLimit - 1 :
           SlugTaken(ChainSlug(req[r].base, k), req[r].doc.oid)

(***************************************************************************)
(* Properties of the responses after a save (checked under Spec).          *)
(***************************************************************************)
\* C22: a request of upload, upload-page or update whose save() wrote the
\* e-paper is answered with the success response (200 or 201): an error
\* response means that nothing was stored.
C22_SavedMeansSuccess ==
  \A r \in Slots :
     (/\ req[r].pc = "done" /\ req[r].op \in {"upload", "uploadPage", "put"}
      /\ req[r].saved)
       => req[r].code \in {200, 201}

(***************************************************************************)
(* Properties of the asset folders of uploads (checked under Spec).        *)
(***************************************************************************)
\* the upload of request r stores the image of its next page in this step
UploadsPage(r) ==
  /\ req[r].op = "upload" /\ req[r].pc = "up_upload"
  /\ req'[r].pc \in {"up_upload", "save_probe", "save_write"}

\* the upload of request q has stored an image as page pageNo of folder id
HasUploaded(q, id, pageNo) ==
  /\ req[q].op = "upload" /\ req[q].id = id
  /\ \/ req[q].pc = "up_upload" /\ req[q].k >= pageNo
     \/ req[q].pc \in {"save_probe", "save_write"} /\ req[q].n >= pageNo
     \/ req[q].pc = "done" /\ req[q].saved /\ req[q].n >= pageNo

\* C23: no upload stores a page image under the public id under which
\* another upload has stored one: two uploads never share a folder, and the
\* images an e-paper refers to stay those of its own PDF.
C23_NoCreateOverwritesAnother ==
  [][ \A r \in Slots :
        UploadsPage(r)
          => \A q \in Slots \ {r} :
                ~HasUploaded(q, req[r].id, req[r].k + 1) ]_vars

(***************************************************************************)
(* Fetching by slug (checked under SpecFetch).                             *)
(***************************************************************************)
\* the e-papers that hold identifier id as their slug
HoldingSlug(id) == {o \in DOMAIN db : db[o].slug # <<>> /\ db[o].slug = id}

\* C24: a fetch whose identifier is the slug of a stored e-paper is
\* answered 200 with the pages of that e-paper, whatever the slug looks like.
C24_FetchableBySlug ==
  [][ \A r \in Slots :
        (/\ req[r].pc = "get_find" /\ req'[r].pc = "done"
         /\ HoldingSlug(req[r].ident) # {})
          => /\ req'[r].code = 200
             /\ \E o \in HoldingSlug(req[r].ident) :
                   req'[r].sent = SortPages(db[o].pages) ]_vars

(***************************************************************************)
(* Fetching an e-paper and sending its pages back (checked under           *)
(* SpecFetch).                                                             *)
(***************************************************************************)
\* the page data the round trip is to keep: of each page the asset id and
\* the sort order, of each section the id, the rectangle, the title, the
\* slug and the share image
PageData(pages) ==
  [i \in 1 .. Len(pages) |->
     [ publicId |-> pages[i].publicId, sortOrder |-> pages[i].sortOrder,
       news |-> [j \in 1 .. Len(pages[i].news) |->
                   [ id |-> pages[i].news[j].id, x |-> pages[i].news[j].x,
                     y |-> pages[i].news[j].y, width |-> pages[i].news[j].width,
                     height |-> pages[i].news[j].height,
                     title |-> pages[i].news[j].title,
                     slug |-> pages[i].news[j].slug,
                     shareImageUrl |-> pages[i].news[j].shareImageUrl ]] ]]

\* the save() of request r writes in this step an update whose pages are
\* those a fetch of the e-paper returns at this moment
PutsBackFetched(r) ==
  /\ req[r].op = "put" /\ req[r].pc = "save_write" /\ req[r].branch = "update"
  /\ req'[r].pc = "done" /\ req'[r].saved
  /\ req[r].body.hasPages
  /\ req[r].body.pages = JsonPages(SortPages(db[req[r].doc.oid].pages))

\* C25: an update whose pages are the fetched pages of the e-paper,
\* unchanged, leaves the page data as it was.
C25_PutOfFetchedIsNoOp ==
  [][ \A r \in Slots :
        PutsBackFetched(r)
          => PageData(SortPages(db'[req[r].doc.oid].pages))
               = PageData(SortPages(db[req[r].doc.oid].pages)) ]_vars

(***************************************************************************)
(* The share images of sections (checked under SpecFetch).                 *)
(***************************************************************************)
\* the asset the share image of section n of page p is to be cut from: the
\* image of the page, or, for a page stored without publicId, the asset the
\* URL itself names
CropSource(p, n) ==
  IF p.publicId # NoPid THEN p.publicId
  ELSE PagePid(n.shareImageUrl.ns, n.shareImageUrl.pg)

\* the share image of section n of page p is the crop of its rectangle
ShareImageFits(p, n) ==
  n.shareImageUrl = CropUrl(CropSource(p, n), Num(n.x), Num(n.y),
                            Num(n.width), Num(n.height))

\* C26: every stored section that has a share image has the crop URL of
\* the rectangle it is stored with.
C26_ShareImageOfStoredRectangle ==
  \A o \in DOMAIN db :
     \A i \in 1 .. Len(db[o].pages) :
        \A j \in 1 .. Len(db[o].pages[i].news) :
           db[o].pages[i].news[j].shareImageUrl # NoUrl
             => ShareImageFits(db[o].pages[i], db[o].pages[i].news[j])


(***************************************************************************)
(* The numbers of the sections an update builds (checked under SpecUpdate).*)
(***************************************************************************)
\* id, x, y, width and height of section n are numbers
NumbersOnly(n) == {n.id.t, n.x.t, n.y.t, n.width.t, n.height.t} = {"num"}

\* v cannot be read as a number: it is missing, empty or a string that
\* does not begin with a number
Unparsable(v) == v.t # "num" /\ parseFloat(v).t # "num"

\* the section the handler built from newsItem has 0 where the payload has
\* no number for x, y, width or height
ZeroForUnparsable(newsItem, n) ==
  /\ Unparsable(newsItem.x) => n.x = Num(0)
  /\ Unparsable(newsItem.y) => n.y = Num(0)
  /\ Unparsable(newsItem.width) => n.width = Num(0)
  /\ Unparsable(newsItem.height) => n.height = Num(0)

\* C27: in the pages an update builds from its payload every section has
\* numbers as id, x, y, width and height, with 0 for an x, y, width or
\* height that cannot be parsed.
C27_SectionNumbersCoerced ==
  \A r \in Slots :
     (req[r].op = "put" /\ req[r].pc = "put_find" /\ req[r].body.hasPages)
       => \A i \in 1 .. Len(req[r].body.pages) :
             \A j \in 1 .. Len(req[r].body.pages[i].news) :
                /\ NumbersOnly(CleanNews(req[r].body.pages[i],
                                         req[r].body.pages[i].news[j], j - 1, DateNow))
                /\ ZeroForUnparsable(req[r].body.pages[i].news[j],
                                     CleanNews(req[r].body.pages[i],
                                               req[r].body.pages[i].news[j],
                                               j - 1, DateNow))

\* the backends of this deployment that pass the availability check
Available == {i \in 1 .. Len(importPaths) : importable[i] = "ok"}

\* the first of them in list order
FirstAvailable == CHOOSE i \in Available : \A j \in Available : i <= j

\* the errors a conversion ends with when the renderer cannot be used, and
\* the one it ends with when the document cannot be opened
RendererUnavailable ==
  {WrapError(CanvasRequired), WrapError(LoadFailed), WrapError(NoGetDocument)}
CorruptInput == {WrapError(InvalidPdf)}

\* C28: the converter uses the first backend of the list that is available;
\* when no backend (or no canvas) is available the conversion never returns
\* pages and ends with an error of the renderer-unavailable kind, which is
\* never the error raised for a PDF that cannot be opened; a corrupt PDF
\* given to an available renderer ends with the corrupt-input error.
C28_FirstAvailableElseUnavailable ==
  /\ (conv.pc \in {"getDocument", "returned"} /\ Available # {})
       => conv.lib = FirstAvailable
  /\ conv.pc = "returned" => (conv.lib \in Available /\ canvasInstalled)
  /\ (conv.pc = "thrown" /\ (Available = {} \/ ~canvasInstalled))
       => (conv.error \in RendererUnavailable /\ conv.error \notin CorruptInput)
  /\ (conv.pc = "thrown" /\ Available # {} /\ canvasInstalled)
       => (conv.pdf = "corrupt" /\ conv.error \in CorruptInput
           /\ conv.error \notin RendererUnavailable)

\* the second backend is used because the first is not available, and a
\* later conversion failed because no backend is available
C28_SecondBackendUsed ==
  /\ conv.pc = "returned"
  /\ importable[1] # "ok"
  /\ conv.lib = 2

C28_NoBackendReported ==
  /\ conv.pc = "thrown"
  /\ Available = {}
  /\ canvasInstalled
  /\ conv.error = WrapError(LoadFailed)

\* C30: whenever loadPdfjs returns a module, on the call that imported it
\* and on every later call served from the cache, the module passed the
\* availability check.
C30_LoaderReturnsVerifiedOnly ==
  conv.pc = "getDocument" => hasGetDocument(conv.lib)

====
